---- MODULE Spec2Model ----
(***************************************************************************)
(* A model of the VXLAN tunnel endpoint of drivers/net/vxlan.c: the        *)
(* forwarding database (FDB) of one endpoint, the operations that change   *)
(* it (netlink add and delete, learning from received packets, ageing,     *)
(* flush, creation and removal of the device), and the receive and         *)
(* transmit paths that read it.                                            *)
(*                                                                         *)
(* Representation.  An Ethernet address is the tuple of its six octets and *)
(* an IPv4 address the tuple of its four octets, first octet first.  The   *)
(* hash table fdb_head is a function from bucket index to the chain of     *)
(* that bucket, head first.  A forwarding entry is a record with the       *)
(* fields of struct vxlan_fdb; its remotes list is a sequence of records   *)
(* with the fields of struct vxlan_rdst.  The field updated of an entry,   *)
(* which the driver writes and only reports, is not part of the record:    *)
(* each write of it is kept with the messages of the handler that made it. *)
(*                                                                         *)
(* Time.  jiffies advances in steps of FDB_AGE_INTERVAL, so every time     *)
(* stamp of the model is a multiple of the rescan interval.                *)
(*                                                                         *)
(* Five specifications.  Spec is the endpoint and its handlers, each       *)
(* handler one step.  SpecRcu is one entry with its writer and its         *)
(* lock-free readers, one step per RCU primitive.  SpecDecode is the       *)
(* receive decoder of the UDP socket with the header the transmit path     *)
(* writes, one step per datagram.  SpecNet is the endpoints of a namespace *)
(* and their sockets: creation, the deferred bind, removal.  SpecSock is   *)
(* the life of the sockets at the grain of their lock sections: the        *)
(* handlers that run under RTNL on one side, the work queue on the other.  *)
(***************************************************************************)
EXTENDS Integers, Sequences, FiniteSets, TLC

VARIABLES
    dev_state,   \* "NEW" (set up, not registered), "DOWN", "UP" (netif_running), "DEAD"
    cfg,         \* the attributes vxlan_newlink stores in struct vxlan_dev
    fdb_head,    \* vxlan->fdb_head[]: bucket index -> chain of entries, head first
    addrcnt,     \* vxlan->addrcnt
    jiffies,     \* the kernel clock
    age_timer,   \* vxlan->age_timer: [pending, expires]
    vn_sock,     \* vxlan->vn_sock and the queued sock_work: [attached, work]
    out,         \* what the last handler was given, returned, published, sent and counted
    rcu,         \* one entry and its readers, at the grain of the RCU primitives
    udp,         \* one datagram on its way through the receive decoder
    vn,          \* struct vxlan_net: the endpoints of a namespace and their sockets
    ns,          \* the sockets of a namespace, the work queue and the threads that touch them
    lk           \* one learned entry, hash_lock and the threads that read and write the entry

vars == <<dev_state, cfg, fdb_head, addrcnt, jiffies, age_timer, vn_sock, out, rcu, udp, vn, ns, lk>>

\* v bound to the value of an expression: With(e, LAMBDA v : body)
With(e, F(_)) == CHOOSE r \in {F(v) : v \in {e}} : TRUE

---------------------------------------------------------------------------
(* Bounds of the model *)

\* jiffies runs from 0 to MaxTicks rescan intervals
MaxTicks == 1

---------------------------------------------------------------------------
(* Program constants *)

FDB_HASH_BITS == 8
HZ == 1
FDB_AGE_INTERVAL == 10 * HZ

\* ndm_state bits (NUD_*) and ndm_flags bits (NTF_*)
NUD_REACHABLE == 2
NUD_NOARP == 64
NUD_PERMANENT == 128
NTF_SELF == 2
NTF_ROUTER == 128

\* errno values returned by the handlers
ENOENT == 2
ENOMEM == 12
EEXIST == 17
EINVAL == 22
ENOSPC == 28
ERANGE == 34
EOPNOTSUPP == 95
ENOBUFS == 105
ENOTCONN == 107

\* module parameter udp_port
vxlan_port == 8472

\* x & bit # 0, for a single-bit mask
HasBit(x, bit) == (x \div bit) % 2 = 1

---------------------------------------------------------------------------
(* Addresses *)

all_zeros_mac == <<0, 0, 0, 0, 0, 0>>
MacU1 == <<2, 0, 0, 0, 0, 1>>
MacU2 == <<2, 0, 0, 0, 0, 2>>
MacM1 == <<1, 0, 94, 0, 0, 1>>
\* dev->dev_addr, the endpoint's own address
dev_addr == <<2, 0, 0, 0, 0, 254>>

\* the keys the admin and the packets use
MACS == {all_zeros_mac, MacU1, MacU2, MacM1}

INADDR_ANY == <<0, 0, 0, 0>>
IpA == <<10, 0, 0, 5>>
IpB == <<10, 0, 0, 7>>
IPS == {IpA, IpB}
\* a request without the NDA_DST attribute
NoDst == <<>>

is_zero_ether_addr(a) == \A i \in 1..6 : a[i] = 0
is_multicast_ether_addr(a) == a[1] % 2 = 1

\* "Only change unicasts": the test vxlan_fdb_create applies before replace / append
IsMultiOrZero(a) == is_multicast_ether_addr(a) \/ is_zero_ether_addr(a)

---------------------------------------------------------------------------
(* eth_hash: the bucket of an Ethernet address.  A u64 is the tuple of its  *)
(* four 16-bit limbs, least significant first.                             *)

Limb == 65536

\* x + y modulo 2^64
AddU64(x, y) ==
    LET s1 == x[1] + y[1]
        s2 == x[2] + y[2] + s1 \div Limb
        s3 == x[3] + y[3] + s2 \div Limb
        s4 == x[4] + y[4] + s3 \div Limb
    IN  <<s1 % Limb, s2 % Limb, s3 % Limb, s4 % Limb>>

\* x - y modulo 2^64: x + ~y + 1
SubU64(x, y) ==
    AddU64(AddU64(x, <<1, 0, 0, 0>>),
           <<Limb - 1 - y[1], Limb - 1 - y[2], Limb - 1 - y[3], Limb - 1 - y[4]>>)

\* x << k modulo 2^64: limb j takes the low 16 - r bits of limb j - q, shifted
\* up by r, and the high r bits of limb j - q - 1, where k = 16 * q + r
ShlU64(x, k) ==
    [j \in 1..4 |->
        (IF j - (k \div 16) >= 1
         THEN (x[j - (k \div 16)] % (2 ^ (16 - (k % 16)))) * (2 ^ (k % 16)) ELSE 0)
      + (IF j - (k \div 16) - 1 >= 1
         THEN x[j - (k \div 16) - 1] \div (2 ^ (16 - (k % 16))) ELSE 0)]

\* The shift-and-add chain by which hash_64() of <linux/hash.h> multiplies by
\* GOLDEN_RATIO_PRIME_64: n <<= shl, then hash += n or hash -= n
HashSteps ==
    << [shl |-> 18, add |-> FALSE], [shl |-> 33, add |-> FALSE], [shl |-> 3, add |-> TRUE],
       [shl |-> 3, add |-> FALSE], [shl |-> 4, add |-> TRUE], [shl |-> 2, add |-> TRUE] >>

RECURSIVE HashChain(_, _, _)
\* one step of the chain with n already shifted, then the rest of the chain
HashStep(hash, n, i) ==
    HashChain(IF HashSteps[i].add THEN AddU64(hash, n) ELSE SubU64(hash, n), n, i + 1)

HashChain(hash, n, i) ==
    IF i > Len(HashSteps) THEN hash
    ELSE HashStep(hash, ShlU64(n, HashSteps[i].shl), i)

\* hash_64(): the top `bits` bits of the product (bits <= 16)
hash_64(val, bits) == HashChain(val, val, 1)[4] \div (2 ^ (16 - bits))

\* get_unaligned((u64 *)addr) on a little-endian machine, then value <<= 16:
\* octet k of the address lands in byte k + 1 of the value (bytes 0, 1 are zero)
eth_hash(addr) ==
    hash_64(<<0, addr[1] + 256 * addr[2], addr[3] + 256 * addr[4],
              addr[5] + 256 * addr[6]>>, FDB_HASH_BITS)

\* the bucket of every address of the model, computed once
BucketOf == [a \in MACS |-> eth_hash(a)]

\* only these chains can ever hold an entry
Buckets == {BucketOf[a] : a \in MACS}

\* vxlan_fdb_head(): the chain of an address
vxlan_fdb_head(head, mac) == head[BucketOf[mac]]

\* the chains in the order the table walks of vxlan_cleanup and vxlan_flush visit them
RECURSIVE SortedBuckets(_)
SortedBuckets(S) ==
    IF S = {} THEN <<>>
    ELSE LET m == CHOOSE x \in S : \A y \in S : x <= y
         IN  <<m>> \o SortedBuckets(S \ {m})

BucketOrder == SortedBuckets(Buckets)

---------------------------------------------------------------------------
(* The forwarding database *)

\* struct vxlan_rdst
Rdst(ip, port, vni, ifindex) ==
    [remote_ip |-> ip, remote_port |-> port, remote_vni |-> vni, remote_ifindex |-> ifindex]

\* struct vxlan_fdb
Fdb(mac, state, flags, used, remotes) ==
    [eth_addr |-> mac, state |-> state, flags |-> flags, used |-> used, remotes |-> remotes]

\* __vxlan_find_mac(): the position of the first entry with this address in the
\* chain of the address, 0 for NULL
vxlan_find_mac_raw(head, mac) ==
    With(vxlan_fdb_head(head, mac), LAMBDA chain :
        IF \E i \in 1..Len(chain) : chain[i].eth_addr = mac
        THEN CHOOSE i \in 1..Len(chain) :
                /\ chain[i].eth_addr = mac
                /\ \A j \in 1..(i - 1) : chain[j].eth_addr # mac
        ELSE 0)

\* the entry at position i of the chain of mac
EntryAt(head, mac, i) == head[BucketOf[mac]][i]

\* the table with the entry at position i of the chain of mac replaced by f
SetEntryAt(head, mac, i, f) == [head EXCEPT ![BucketOf[mac]][i] = f]

\* vxlan_find_mac(): the lookup of the packet paths, which stamps f->used.
\* [i, head]: the position found (0 for NULL) and the table after the stamp.
vxlan_find_mac(head, mac, now) ==
    With(vxlan_find_mac_raw(head, mac), LAMBDA i :
        [i |-> i,
         head |-> IF i = 0 THEN head ELSE [head EXCEPT ![BucketOf[mac]][i].used = now]])

\* vxlan_fdb_find_rdst(): position of the destination equal on all four fields, 0 for NULL
vxlan_fdb_find_rdst(f, ip, port, vni, ifindex) ==
    With(Rdst(ip, port, vni, ifindex), LAMBDA rd :
        IF \E i \in 1..Len(f.remotes) : f.remotes[i] = rd
        THEN CHOOSE i \in 1..Len(f.remotes) :
                /\ f.remotes[i] = rd
                /\ \A j \in 1..(i - 1) : f.remotes[j] # rd
        ELSE 0)

\* vxlan_fdb_replace(): [rc, f]
vxlan_fdb_replace(f, ip, port, vni, ifindex) ==
    IF vxlan_fdb_find_rdst(f, ip, port, vni, ifindex) # 0 THEN [rc |-> 0, f |-> f]
    ELSE IF f.remotes = <<>> THEN [rc |-> 0, f |-> f]
    ELSE [rc |-> 1, f |-> [f EXCEPT !.remotes[1] = Rdst(ip, port, vni, ifindex)]]

\* vxlan_fdb_append() that adds at the head of the list
vxlan_fdb_append_head(f, ip, port, vni, ifindex, alloc) ==
    IF vxlan_fdb_find_rdst(f, ip, port, vni, ifindex) # 0 THEN [rc |-> 0, f |-> f]
    ELSE IF ~alloc THEN [rc |-> -ENOBUFS, f |-> f]
    ELSE [rc |-> 1, f |-> [f EXCEPT !.remotes = <<Rdst(ip, port, vni, ifindex)>> \o @]]

\* vxlan_fdb_append(): [rc, f]; alloc is whether kmalloc(GFP_ATOMIC) of the rdst succeeds
vxlan_fdb_append(f, ip, port, vni, ifindex, alloc) ==
    IF vxlan_fdb_find_rdst(f, ip, port, vni, ifindex) # 0 THEN [rc |-> 0, f |-> f]
    ELSE IF ~alloc THEN [rc |-> -ENOBUFS, f |-> f]
    ELSE [rc |-> 1, f |-> [f EXCEPT !.remotes = Append(@, Rdst(ip, port, vni, ifindex))]]

\* vxlan_fdb_notify(): one message to RTNLGRP_NEIGH about entry f.  nl is the
\* sequence of messages the running handler has published so far.
vxlan_fdb_notify(nl, f, type) == Append(nl, [type |-> type, mac |-> f.eth_addr])

\* f->updated = jiffies.  The driver only ever writes the field (vxlan_fdb_info
\* reports its age), so a handler's effect on it is the entries it stamps: each
\* stamp is kept among the messages of the handler, in the order of execution.
fdb_set_updated(nl, f) == Append(nl, [type |-> "updated", mac |-> f.eth_addr])

\* The FDB a writer works on and the messages it has published: [head, addrcnt, nl]
FdbSt(head, cnt, nl) == [head |-> head, addrcnt |-> cnt, nl |-> nl]

\* what vxlan_fdb_create returns and leaves behind: [err, head, addrcnt, nl]
FdbRes(err, head, cnt, nl) == [err |-> err, head |-> head, addrcnt |-> cnt, nl |-> nl]

\* a request to vxlan_fdb_create
Req(mac, ip, state, flags, port, vni, ifindex, ndm_flags) ==
    [mac |-> mac, ip |-> ip, state |-> state, flags |-> flags, port |-> port,
     vni |-> vni, ifindex |-> ifindex, ndm_flags |-> ndm_flags]

\* The branch of vxlan_fdb_create for an entry that exists, with NLM_F_REPLACE
\* taken for every address
FdbUpdate_replace_any(f, r, alloc_rd) ==
    With(IF f.state # r.state THEN [f EXCEPT !.state = r.state] ELSE f, LAMBDA f1 :
    With(IF f1.flags # r.ndm_flags THEN [f1 EXCEPT !.flags = r.ndm_flags] ELSE f1, LAMBDA f2 :
    With(IF "REPLACE" \in r.flags
         THEN vxlan_fdb_replace(f2, r.ip, r.port, r.vni, r.ifindex)
         ELSE [rc |-> 0, f |-> f2], LAMBDA rep :
    With(IF "APPEND" \in r.flags /\ IsMultiOrZero(f.eth_addr)
         THEN vxlan_fdb_append(rep.f, r.ip, r.port, r.vni, r.ifindex, alloc_rd)
         ELSE [rc |-> 0, f |-> rep.f], LAMBDA app :
        IF app.rc < 0
        THEN [err |-> app.rc, f |-> app.f, notify |-> FALSE, updated |-> f2 # f]
        ELSE [err |-> 0, f |-> app.f,
              notify |-> f2 # f \/ rep.rc = 1 \/ app.rc = 1, updated |-> f2 # f]))))

\* The branch of vxlan_fdb_create for an entry that exists, with NLM_F_APPEND
\* taken for every address
FdbUpdate_append_any(f, r, alloc_rd) ==
    With(IF f.state # r.state THEN [f EXCEPT !.state = r.state] ELSE f, LAMBDA f1 :
    With(IF f1.flags # r.ndm_flags THEN [f1 EXCEPT !.flags = r.ndm_flags] ELSE f1, LAMBDA f2 :
        IF "REPLACE" \in r.flags /\ IsMultiOrZero(f.eth_addr)
        THEN [err |-> -EOPNOTSUPP, f |-> f2, notify |-> FALSE, updated |-> f2 # f]
        ELSE
    With(IF "REPLACE" \in r.flags
         THEN vxlan_fdb_replace(f2, r.ip, r.port, r.vni, r.ifindex)
         ELSE [rc |-> 0, f |-> f2], LAMBDA rep :
    With(IF "APPEND" \in r.flags
         THEN vxlan_fdb_append(rep.f, r.ip, r.port, r.vni, r.ifindex, alloc_rd)
         ELSE [rc |-> 0, f |-> rep.f], LAMBDA app :
        IF app.rc < 0
        THEN [err |-> app.rc, f |-> app.f, notify |-> FALSE, updated |-> f2 # f]
        ELSE [err |-> 0, f |-> app.f,
              notify |-> f2 # f \/ rep.rc = 1 \/ app.rc = 1, updated |-> f2 # f]))))

\* The branch of vxlan_fdb_create for an entry f that exists: [err, f, notify,
\* updated], where updated says whether f->updated was set.
\* The changes of state and flags stay when a later step returns an error.
FdbUpdate(f, r, alloc_rd) ==
    With(IF f.state # r.state THEN [f EXCEPT !.state = r.state] ELSE f, LAMBDA f1 :
    With(IF f1.flags # r.ndm_flags THEN [f1 EXCEPT !.flags = r.ndm_flags] ELSE f1, LAMBDA f2 :
        IF "REPLACE" \in r.flags /\ IsMultiOrZero(f.eth_addr)
        THEN [err |-> -EOPNOTSUPP, f |-> f2, notify |-> FALSE, updated |-> f2 # f]
        ELSE
    With(IF "REPLACE" \in r.flags
         THEN vxlan_fdb_replace(f2, r.ip, r.port, r.vni, r.ifindex)
         ELSE [rc |-> 0, f |-> f2], LAMBDA rep :
    With(IF "APPEND" \in r.flags /\ IsMultiOrZero(f.eth_addr)
         THEN vxlan_fdb_append(rep.f, r.ip, r.port, r.vni, r.ifindex, alloc_rd)
         ELSE [rc |-> 0, f |-> rep.f], LAMBDA app :
        IF app.rc < 0
        THEN [err |-> app.rc, f |-> app.f, notify |-> FALSE, updated |-> f2 # f]
        ELSE [err |-> 0, f |-> app.f,
              notify |-> f2 # f \/ rep.rc = 1 \/ app.rc = 1, updated |-> f2 # f]))))

\* The entry vxlan_fdb_create allocates and fills in.  What vxlan_fdb_append
\* returns is not looked at.
FdbNew(r, now, alloc_rd) ==
    vxlan_fdb_append(Fdb(r.mac, r.state, r.ndm_flags, now, <<>>),
                     r.ip, r.port, r.vni, r.ifindex, alloc_rd).f

\* The branch of vxlan_fdb_create for an address without entry, with the test
\* of addrmax left out
FdbAdd_unlimited(st, addrmax, now, r, alloc_f, alloc_rd) ==
    IF "CREATE" \notin r.flags
    THEN FdbRes(-ENOENT, st.head, st.addrcnt, st.nl)
    ELSE IF "REPLACE" \in r.flags /\ IsMultiOrZero(r.mac)
    THEN FdbRes(-EOPNOTSUPP, st.head, st.addrcnt, st.nl)
    ELSE IF ~alloc_f
    THEN FdbRes(-ENOMEM, st.head, st.addrcnt, st.nl)
    ELSE With(FdbNew(r, now, alloc_rd), LAMBDA f :
             FdbRes(0, [st.head EXCEPT ![BucketOf[r.mac]] = <<f>> \o @],
                    st.addrcnt + 1,
                    vxlan_fdb_notify(fdb_set_updated(st.nl, f), f, "RTM_NEWNEIGH")))

\* The branch of vxlan_fdb_create for an address without entry.  alloc_f and
\* alloc_rd say whether the kmalloc of the entry and of the destination succeed.
FdbAdd(st, addrmax, now, r, alloc_f, alloc_rd) ==
    IF "CREATE" \notin r.flags
    THEN FdbRes(-ENOENT, st.head, st.addrcnt, st.nl)
    ELSE IF addrmax # 0 /\ st.addrcnt >= addrmax
    THEN FdbRes(-ENOSPC, st.head, st.addrcnt, st.nl)
    ELSE IF "REPLACE" \in r.flags /\ IsMultiOrZero(r.mac)
    THEN FdbRes(-EOPNOTSUPP, st.head, st.addrcnt, st.nl)
    ELSE IF ~alloc_f
    THEN FdbRes(-ENOMEM, st.head, st.addrcnt, st.nl)
    ELSE With(FdbNew(r, now, alloc_rd), LAMBDA f :
             FdbRes(0, [st.head EXCEPT ![BucketOf[r.mac]] = <<f>> \o @],
                    st.addrcnt + 1,
                    vxlan_fdb_notify(fdb_set_updated(st.nl, f), f, "RTM_NEWNEIGH")))

\* vxlan_fdb_create()
vxlan_fdb_create(st, addrmax, now, r, alloc_f, alloc_rd) ==
    With(vxlan_find_mac_raw(st.head, r.mac), LAMBDA i :
        IF i # 0
        THEN IF "EXCL" \in r.flags
             THEN FdbRes(-EEXIST, st.head, st.addrcnt, st.nl)
             ELSE With(FdbUpdate(EntryAt(st.head, r.mac, i), r, alloc_rd), LAMBDA u :
                  With(IF u.updated THEN fdb_set_updated(st.nl, u.f) ELSE st.nl, LAMBDA nl :
                      FdbRes(u.err, SetEntryAt(st.head, r.mac, i, u.f), st.addrcnt,
                             IF u.notify THEN vxlan_fdb_notify(nl, u.f, "RTM_NEWNEIGH")
                             ELSE nl)))
        ELSE FdbAdd(st, addrmax, now, r, alloc_f, alloc_rd))

\* a sequence without its i-th element
RemoveAt(s, i) == [j \in 1..(Len(s) - 1) |-> IF j < i THEN s[j] ELSE s[j + 1]]

\* vxlan_fdb_destroy() without the count-down
vxlan_fdb_destroy_keep_count(st, mac) ==
    With(vxlan_find_mac_raw(st.head, mac), LAMBDA i :
        FdbSt([st.head EXCEPT ![BucketOf[mac]] = RemoveAt(@, i)],
              st.addrcnt,
              vxlan_fdb_notify(st.nl, EntryAt(st.head, mac, i), "RTM_DELNEIGH")))

\* vxlan_fdb_destroy() of the entry of mac: count down, publish, unlink
vxlan_fdb_destroy(st, mac) ==
    With(vxlan_find_mac_raw(st.head, mac), LAMBDA i :
        FdbSt([st.head EXCEPT ![BucketOf[mac]] = RemoveAt(@, i)],
              st.addrcnt - 1,
              vxlan_fdb_notify(st.nl, EntryAt(st.head, mac, i), "RTM_DELNEIGH")))

\* the entries of the table in the order a walk over fdb_head[0..FDB_HASH_SIZE-1] meets them
RECURSIVE WalkFrom(_, _)
WalkFrom(head, k) ==
    IF k > Len(BucketOrder) THEN <<>>
    ELSE head[BucketOrder[k]] \o WalkFrom(head, k + 1)

Walk(head) == WalkFrom(head, 1)

\* time_before_eq(a, b) and time_before(a, b), inside a window without wrap-around
time_before_eq(a, b) == a <= b
time_before(a, b) == a < b

\* the test of vxlan_cleanup with time_before in the place of time_before_eq
Expired_strict(f, now, age_interval) == time_before(f.used + age_interval * HZ, now)

\* the test of vxlan_cleanup on an entry it does not skip: the entry has timed out
Expired(f, now, age_interval) == time_before_eq(f.used + age_interval * HZ, now)

\* The walk of vxlan_cleanup over the entries ws, one at a time: [st, next_timer].
\* An entry that has timed out is destroyed; the NUD_STALE the driver writes
\* into it first shows only in the state field of its RTM_DELNEIGH message,
\* which the messages of the model do not carry.
RECURSIVE CleanupWalk(_, _, _, _, _)
CleanupWalk(ws, st, next_timer, now, age_interval) ==
    IF ws = <<>> THEN [st |-> st, next_timer |-> next_timer]
    ELSE IF HasBit(Head(ws).state, NUD_PERMANENT)
    THEN CleanupWalk(Tail(ws), st, next_timer, now, age_interval)
    ELSE IF Expired(Head(ws), now, age_interval)
    THEN CleanupWalk(Tail(ws), vxlan_fdb_destroy(st, Head(ws).eth_addr),
                     next_timer, now, age_interval)
    ELSE CleanupWalk(Tail(ws), st,
                     IF time_before(Head(ws).used + age_interval * HZ, next_timer)
                     THEN Head(ws).used + age_interval * HZ ELSE next_timer,
                     now, age_interval)

\* the walk of vxlan_flush: every entry but the all-zero one is destroyed
RECURSIVE FlushWalk(_, _)
FlushWalk(ws, st) ==
    IF ws = <<>> THEN st
    ELSE FlushWalk(Tail(ws),
                   IF ~is_zero_ether_addr(Head(ws).eth_addr)
                   THEN vxlan_fdb_destroy(st, Head(ws).eth_addr) ELSE st)

\* a flush that spares no entry
vxlan_flush_all(st) == FdbSt([b \in Buckets |-> <<>>], 0, st.nl)

vxlan_flush(st) == FlushWalk(Walk(st.head), st)

\* vxlan_fdb_delete_default()
vxlan_fdb_delete_default(st) ==
    IF vxlan_find_mac_raw(st.head, all_zeros_mac) # 0
    THEN vxlan_fdb_destroy(st, all_zeros_mac)
    ELSE st

---------------------------------------------------------------------------
(* Learning *)

\* what vxlan_snoop returns and leaves behind: [drop, head, addrcnt, nl]
SnoopRes(drop, head, cnt, nl) == [drop |-> drop, head |-> head, addrcnt |-> cnt, nl |-> nl]

\* The branch of vxlan_snoop for an entry f that exists, at position i of the
\* chain of src_mac in head.  first_remote_rcu() of an entry whose remotes list
\* is empty is the list head itself taken for a struct vxlan_rdst: its
\* remote_ip overlays other bytes of the entry (of f->updated or f->rcu, by the
\* build), so the address read through it is arbitrary, wild_eq says whether
\* it compares equal to src_ip, and the store through it changes no field of
\* the model.
SnoopKnown_migrate(st, head, i, f, src_ip, src_mac, wild_eq) ==
    IF (IF f.remotes = <<>> THEN wild_eq ELSE f.remotes[1].remote_ip = src_ip)
    THEN SnoopRes(FALSE, head, st.addrcnt, st.nl)
    ELSE SnoopRes(FALSE,
                  IF f.remotes = <<>> THEN head
                  ELSE [head EXCEPT ![BucketOf[src_mac]][i].remotes[1].remote_ip = src_ip],
                  st.addrcnt,
                  vxlan_fdb_notify(fdb_set_updated(st.nl, f), f, "RTM_NEWNEIGH"))

SnoopKnown(st, head, i, f, src_ip, src_mac, wild_eq) ==
    IF (IF f.remotes = <<>> THEN wild_eq ELSE f.remotes[1].remote_ip = src_ip)
    THEN SnoopRes(FALSE, head, st.addrcnt, st.nl)
    ELSE IF HasBit(f.state, NUD_NOARP)
    THEN SnoopRes(TRUE, head, st.addrcnt, st.nl)
    ELSE SnoopRes(FALSE,
                  IF f.remotes = <<>> THEN head
                  ELSE [head EXCEPT ![BucketOf[src_mac]][i].remotes[1].remote_ip = src_ip],
                  st.addrcnt,
                  vxlan_fdb_notify(fdb_set_updated(st.nl, f), f, "RTM_NEWNEIGH"))

\* vxlan_snoop().  c is the endpoint's configuration, running is netif_running(dev).
vxlan_snoop(st, c, running, now, src_ip, src_mac, alloc_f, alloc_rd, wild_eq) ==
    With(vxlan_find_mac(st.head, src_mac, now), LAMBDA fm :
        IF fm.i # 0
        THEN SnoopKnown(st, fm.head, fm.i, EntryAt(fm.head, src_mac, fm.i),
                        src_ip, src_mac, wild_eq)
        ELSE IF running
        THEN With(vxlan_fdb_create(st, c.addrmax, now,
                                   Req(src_mac, src_ip, NUD_REACHABLE, {"EXCL", "CREATE"},
                                       c.dst_port, c.vni, 0, NTF_SELF),
                                   alloc_f, alloc_rd),
                  LAMBDA r : SnoopRes(FALSE, r.head, r.addrcnt, r.nl))
        ELSE SnoopRes(FALSE, st.head, st.addrcnt, st.nl))

---------------------------------------------------------------------------
(* The endpoint *)

\* the attribute sets of the endpoints of the model: flags, IFLA_VXLAN_AGEING,
\* IFLA_VXLAN_LIMIT, IFLA_VXLAN_GROUP, IFLA_VXLAN_ID, IFLA_VXLAN_PORT
Configs ==
    { [flags |-> {"LEARN", "L2MISS"}, age_interval |-> 10, addrmax |-> 2,
       default_ip |-> IpA, vni |-> 10, dst_port |-> vxlan_port],
      [flags |-> {"LEARN"}, age_interval |-> 10, addrmax |-> 0,
       default_ip |-> INADDR_ANY, vni |-> 10, dst_port |-> vxlan_port],
      [flags |-> {"RSC"}, age_interval |-> 0, addrmax |-> 0,
       default_ip |-> INADDR_ANY, vni |-> 10, dst_port |-> vxlan_port] }

StatNames == {"rx_packets", "rx_bytes", "rx_dropped", "rx_frame_errors", "rx_errors",
              "tx_packets", "tx_bytes", "tx_dropped", "tx_errors", "tx_carrier_errors",
              "tx_aborted_errors", "collisions"}

\* The counters of dev->stats and vxlan->stats are only ever incremented, never
\* read: a handler's effect on them is the increments it makes.
NoCount == [k \in StatNames |-> 0]

Bump(cnt, k) == [cnt EXCEPT ![k] = @ + 1]

\* stats->rx_packets++; stats->rx_bytes += len, and the same for tx
CountPkt(cnt, dir, len) == [cnt EXCEPT ![dir \o "_packets"] = @ + 1, ![dir \o "_bytes"] = @ + len]

\* The frames of the model are FrameLen bytes long, Ethernet header included.
\* skb_len is skb->len once the Ethernet header has been pulled: by
\* eth_type_trans on receive, by __skb_pull(skb, skb_network_offset(skb)) in
\* the bypass.
FrameLen == 60
ETH_HLEN == 14
skb_len == FrameLen - ETH_HLEN

\* What a handler leaves behind: the request, packet or frame it was given, its
\* return value, the messages it published to RTNLGRP_NEIGH (with its stamps of
\* f->updated, see fdb_set_updated), the destinations it
\* called vxlan_xmit_one with, the number of frames it handed to netif_rx, and
\* its increments of the counters.  ecn is written by vxlan_rcv only: the ECN
\* field of the inner header as INET_ECN_set_ce left it, empty when the handler
\* did not get that far.
Out(op, arg, err, nl, tx, up, cnt) ==
    [op |-> op, arg |-> arg, err |-> err, nl |-> nl, tx |-> tx, up |-> up, cnt |-> cnt,
     ecn |-> <<>>]

\* a handler that only returns and publishes
Ret(op, arg, err, nl) == Out(op, arg, err, nl, <<>>, 0, NoCount)

netif_running == dev_state = "UP"
Registered == dev_state \in {"DOWN", "UP"}

\* The entry is object 0, the destinations it can get are the objects of Rdsts.
\* rcu.linked: the entry is in its hash chain.  rcu.next: the list of remotes by
\* its forward pointers, next[0] being f->remotes.next and 0 the list head.
\* rcu.mem: every object is "none" (not allocated), "live", "retired" (handed to
\* call_rcu) or "free".  rcu.wait: the readers the grace period of a retired
\* object still waits for.  rcu.rd: every reader's position and the pointers it holds.
Rdsts == {1, 2}
Readers == {1, 2}
Objs == {0} \cup Rdsts

\* no entry yet, every reader outside
RcuIdle ==
    [linked |-> FALSE,
     next |-> [o \in Objs |-> 0],
     mem |-> [o \in Objs |-> "none"],
     wait |-> [o \in Objs |-> {}],
     rd |-> [r \in Readers |-> [pc |-> "out", cur |-> 0]]]

\* The network namespace of the endpoints: the devices that can be created in
\* it and the UDP ports they listen on
Devs == {1, 2, 3}
\* The number of VNIs, and the largest of them
VXLAN_N_VID == 16777216
VXLAN_VID_MASK == VXLAN_N_VID - 1

NetVnis == {10, 11, VXLAN_VID_MASK - 1, VXLAN_VID_MASK, VXLAN_N_VID}
NetPorts == {vxlan_port, vxlan_port + 1}

\* A device of the namespace: whether vxlan_newlink registered it, its VNI and
\* destination port, the port of the socket vxlan_vs_add_dev attached it to
\* (0: vxlan->vn_sock is NULL and the device is in no VNI list), and whether
\* its sock_work is queued
NetDev(vni, port, vs, work) ==
    [reg |-> TRUE, vni |-> vni, dst_port |-> port, vn_sock |-> vs, sock_work |-> work]
NoDev == [reg |-> FALSE, vni |-> 0, dst_port |-> 0, vn_sock |-> 0, sock_work |-> FALSE]

\* what the last operation on the namespace was and returned
NetRet(op, d, vni, port, err) == [op |-> op, dev |-> d, vni |-> vni, dst_port |-> port, err |-> err]

\* struct vxlan_net without devices and sockets: sock_list gives the refcnt of
\* the socket of each port, 0 when there is none
NetIdle ==
    [devs |-> [d \in Devs |-> NoDev],
     sock_list |-> [p \in NetPorts |-> 0],
     ret |-> NetRet("init", 0, 0, 0, 0)]

\* The sockets of a namespace at the grain of their lock sections.
\* sock[s] is the struct vxlan_sock at address s: "free" (not allocated, or
\* freed), "bound" (bound to its port, not yet on vn->sock_list), "listed",
\* "unlisted" (taken off the list, its socket still bound); its port, its
\* refcnt, and del, the number of times its del_work was queued.
\* dev[d] is a device: registered (and on vn->vxlan_list), netif_running, its
\* dst_port, its default_dst.remote_ip, and vn_sock (0 for NULL).
\* wq is vxlan_wq: the pending work items, first to run first.
\* rtnl and work say where the thread that holds RTNL and the thread of
\* vxlan_wq stand inside the function they run.
\* oops: a step has written through a dangling or poisoned pointer; what the
\* kernel does from there on is not described.
NsIdle ==
    [sock |-> [s \in {1, 2} |-> [st |-> "free", port |-> 0, refcnt |-> 0, del |-> 0]],
     dev |-> [d \in {1, 2} |->
                 [reg |-> FALSE, up |-> FALSE, dst_port |-> 0, ip |-> INADDR_ANY, vn_sock |-> 0]],
     wq |-> <<>>,
     rtnl |-> [pc |-> "idle", d |-> 0, s |-> 0],
     work |-> [pc |-> "idle", d |-> 0, s |-> 0],
     oops |-> FALSE]

\* One learned entry of a registered endpoint at the grain of single loads and
\* stores.  running is __LINK_STATE_START.  hash_lock is "free" or the thread
\* that holds it.  zero: the all-zero entry is installed.  cur is the
\* struct vxlan_rdst of the entry in the hash chain (0: no entry); rd[o] is the
\* memory of destination o, which outlives the entry while a reader is inside
\* its RCU section.  pc says where each thread stands: "rtnl" runs the netlink
\* and netdevice handlers, "rx" vxlan_snoop, "tx" vxlan_xmit_one.  p is the
\* destination a reader holds, req the tuple of the admin request, src_ip the
\* outer source of the packet, loc the locals of vxlan_xmit_one read so far.
LkIdle ==
    [running |-> FALSE,
     hash_lock |-> "free",
     zero |-> FALSE,
     cur |-> 0,
     rd |-> [o \in {1, 2} |-> Rdst(INADDR_ANY, 0, 0, 0)],
     pc |-> [t \in {"rtnl", "rx", "tx"} |-> IF t = "rtnl" THEN "new" ELSE "idle"],
     p |-> [t \in {"rx", "tx"} |-> 0],
     req |-> Rdst(INADDR_ANY, 0, 0, 0),
     src_ip |-> INADDR_ANY,
     loc |-> Rdst(INADDR_ANY, 0, 0, 0)]

\* no datagram in the receive decoder
UdpIdle == [pc |-> "idle"]

Init ==
    /\ dev_state = "NEW"
    /\ cfg \in Configs
    /\ fdb_head = [b \in Buckets |-> <<>>]
    /\ addrcnt = 0
    /\ jiffies = 0
    /\ age_timer = [pending |-> FALSE, expires |-> 0]
    /\ vn_sock = [attached |-> FALSE, work |-> FALSE]
    /\ out = Ret("setup", <<>>, 0, <<>>)
    /\ rcu = RcuIdle
    /\ udp = UdpIdle
    /\ vn = NetIdle
    /\ ns = NsIdle
    /\ lk = LkIdle

\* the clock
Tick ==
    /\ jiffies + FDB_AGE_INTERVAL <= MaxTicks * FDB_AGE_INTERVAL
    /\ jiffies' = jiffies + FDB_AGE_INTERVAL
    /\ out' = Ret("tick", <<>>, 0, <<>>)
    /\ UNCHANGED <<dev_state, cfg, fdb_head, addrcnt, age_timer, vn_sock, rcu, udp, vn, ns, lk>>

\* vxlan_newlink(), with the vxlan_init() register_netdevice() calls.  reg_ok:
\* register_netdevice succeeds; sock_found: a socket on the port already exists.
vxlan_newlink(alloc_f, alloc_rd, reg_ok, sock_found) ==
    /\ dev_state = "NEW"
    /\ \E r \in { IF cfg.default_ip # INADDR_ANY
                 THEN vxlan_fdb_create(FdbSt(fdb_head, addrcnt, <<>>), cfg.addrmax, jiffies,
                          Req(all_zeros_mac, cfg.default_ip,
                              NUD_REACHABLE + NUD_PERMANENT, {"EXCL", "CREATE"},
                              cfg.dst_port, cfg.vni, 0, NTF_SELF),
                          alloc_f, alloc_rd)
                 ELSE FdbRes(0, fdb_head, addrcnt, <<>>) } :
          IF r.err # 0
          THEN /\ dev_state' = "DEAD"
               /\ out' = Ret("newlink", <<>>, r.err, r.nl)
               /\ UNCHANGED <<fdb_head, addrcnt, vn_sock>>
          ELSE IF ~reg_ok
          THEN \E st \in {vxlan_fdb_delete_default(FdbSt(r.head, r.addrcnt, r.nl))} :
               /\ dev_state' = "DEAD"
               /\ fdb_head' = st.head
               /\ addrcnt' = st.addrcnt
               /\ out' = Ret("newlink", <<>>, -ENOMEM, st.nl)
               /\ UNCHANGED vn_sock
          ELSE /\ dev_state' = "DOWN"
               /\ fdb_head' = r.head
               /\ addrcnt' = r.addrcnt
               /\ vn_sock' = [attached |-> sock_found, work |-> ~sock_found]
               /\ out' = Ret("newlink", <<>>, 0, r.nl)
    /\ UNCHANGED <<cfg, jiffies, age_timer, rcu, udp, vn, ns, lk>>

\* vxlan_sock_work(): the deferred bind; bind_ok: vxlan_sock_add returns a socket
vxlan_sock_work(bind_ok) ==
    /\ vn_sock.work
    /\ vn_sock' = [attached |-> bind_ok /\ Registered, work |-> FALSE]
    /\ out' = Ret("sock_work", <<>>, 0, <<>>)
    /\ UNCHANGED <<dev_state, cfg, fdb_head, addrcnt, jiffies, age_timer, rcu, udp, vn, ns, lk>>

\* vxlan_open().  The default remotes of Configs are not multicast, so no group is joined.
vxlan_open ==
    /\ dev_state = "DOWN"
    /\ IF ~vn_sock.attached
       THEN /\ out' = Ret("open", <<>>, -ENOTCONN, <<>>)
            /\ UNCHANGED <<dev_state, age_timer>>
       ELSE /\ dev_state' = "UP"
            /\ age_timer' = IF cfg.age_interval # 0
                            THEN [pending |-> TRUE, expires |-> jiffies + FDB_AGE_INTERVAL]
                            ELSE age_timer
            /\ out' = Ret("open", <<>>, 0, <<>>)
    /\ UNCHANGED <<cfg, fdb_head, addrcnt, jiffies, vn_sock, rcu, udp, vn, ns, lk>>

\* vxlan_stop(): del_timer_sync, then vxlan_flush
vxlan_stop ==
    /\ dev_state = "UP"
    /\ \E st \in {vxlan_flush(FdbSt(fdb_head, addrcnt, <<>>))} :
          /\ fdb_head' = st.head
          /\ addrcnt' = st.addrcnt
          /\ out' = Ret("stop", <<>>, 0, st.nl)
    /\ dev_state' = "DOWN"
    /\ age_timer' = [age_timer EXCEPT !.pending = FALSE]
    /\ UNCHANGED <<cfg, jiffies, vn_sock, rcu, udp, vn, ns, lk>>

\* vxlan_dellink(): unregister_netdevice closes a running device (vxlan_stop),
\* then vxlan_uninit deletes the default entry and drops the socket
vxlan_dellink ==
    /\ Registered
    /\ \E st1 \in { IF netif_running THEN vxlan_flush(FdbSt(fdb_head, addrcnt, <<>>))
                   ELSE FdbSt(fdb_head, addrcnt, <<>>) } :
       \E st2 \in {vxlan_fdb_delete_default(st1)} :
          /\ fdb_head' = st2.head
          /\ addrcnt' = st2.addrcnt
          /\ out' = Ret("dellink", <<>>, 0, st2.nl)
    /\ dev_state' = "DEAD"
    /\ age_timer' = IF netif_running THEN [age_timer EXCEPT !.pending = FALSE]
                    ELSE age_timer
    /\ vn_sock' = [vn_sock EXCEPT !.attached = FALSE]
    /\ UNCHANGED <<cfg, jiffies, rcu, udp, vn, ns, lk>>

---------------------------------------------------------------------------
(* The handlers of the FDB *)

\* an RTM_NEWNEIGH request: ip is the value of NDA_DST, NoDst when the attribute is missing
NewNeigh(mac, ip, state, flags) ==
    [mac |-> mac, ip |-> ip, state |-> state, flags |-> flags, ndm_flags |-> NTF_SELF,
     nda_vni |-> {}]

\* the same request with the NDA_VNI attribute
NewNeighVni(mac, ip, state, flags, vni) ==
    [NewNeigh(mac, ip, state, flags) EXCEPT !.nda_vni = {vni}]

\* the same request with NTF_ROUTER in ndm_flags
NewRouter(mac, ip, state, flags) ==
    [NewNeigh(mac, ip, state, flags) EXCEPT !.ndm_flags = NTF_SELF + NTF_ROUTER]

\* the RTM_NEWNEIGH requests of the model
AdminReqs ==
    { NewNeigh(MacU1, IpA, NUD_REACHABLE, {"CREATE", "EXCL"}),
      NewNeigh(MacU1, IpB, NUD_PERMANENT + NUD_NOARP, {"CREATE", "REPLACE"}),
      NewNeigh(MacU1, IpB, NUD_REACHABLE, {"CREATE", "APPEND"}),
      NewNeigh(MacU1, IpA, NUD_REACHABLE, {}),
      NewNeigh(MacU1, IpB, NUD_REACHABLE, {"REPLACE"}),
      NewNeigh(MacU1, NoDst, NUD_REACHABLE, {"CREATE"}),
      NewNeigh(MacM1, IpA, NUD_PERMANENT + NUD_NOARP, {"CREATE", "APPEND"}),
      NewNeigh(MacM1, IpB, NUD_PERMANENT + NUD_NOARP, {"CREATE", "APPEND"}),
      NewNeigh(MacM1, IpB, NUD_PERMANENT + NUD_NOARP, {"CREATE", "REPLACE"}) }

\* the RTM_NEWNEIGH requests for an endpoint with route short-circuit: the
\* entry of a router, the entry of a neighbour on the local bridge, a group
\* with a destination in the endpoint's VNI and one in another VNI, a
\* replacement whose NDA_VNI has more than 24 bits, and a replacement for the
\* group with another state
RscReqs ==
    { NewRouter(MacU1, IpA, NUD_REACHABLE, {"CREATE"}),
      NewNeigh(MacU2, INADDR_ANY, NUD_PERMANENT + NUD_NOARP, {"CREATE"}),
      NewNeigh(MacM1, IpA, NUD_PERMANENT + NUD_NOARP, {"CREATE", "APPEND"}),
      NewNeighVni(MacM1, IpB, NUD_PERMANENT + NUD_NOARP, {"CREATE", "APPEND"}, 11),
      NewNeighVni(MacU2, IpB, NUD_PERMANENT + NUD_NOARP, {"REPLACE"}, VXLAN_N_VID + 10),
      NewNeigh(MacM1, IpA, NUD_REACHABLE, {"REPLACE"}) }

\* the outcomes of the two allocations of vxlan_fdb_create: the entry, the destination
Allocs == { [f |-> TRUE, rd |-> TRUE], [f |-> TRUE, rd |-> FALSE], [f |-> FALSE, rd |-> TRUE] }

\* What memory does to a vxlan_snoop: the two allocations when it creates an entry,
\* and whether the address read through the empty remotes list of an existing
\* entry equals the source address.  No call meets both.
SnoopEnvs ==
    { [f |-> TRUE, rd |-> TRUE, wild_eq |-> FALSE], [f |-> TRUE, rd |-> FALSE, wild_eq |-> TRUE],
      [f |-> FALSE, rd |-> TRUE, wild_eq |-> FALSE] }

\* vxlan_fdb_add() of request q.  NDA_PORT and NDA_IFINDEX are left out, so
\* vxlan_fdb_parse gives the endpoint's port and ifindex 0, and the endpoint's
\* VNI when NDA_VNI is missing.
vxlan_fdb_add(q, alloc_f, alloc_rd) ==
    /\ Registered
    /\ IF ~(HasBit(q.state, NUD_PERMANENT) \/ HasBit(q.state, NUD_REACHABLE)) \/ q.ip = NoDst
       THEN /\ out' = Ret("fdb_add", q, -EINVAL, <<>>)
            /\ UNCHANGED <<fdb_head, addrcnt>>
       ELSE \E r \in { vxlan_fdb_create(FdbSt(fdb_head, addrcnt, <<>>), cfg.addrmax, jiffies,
                           Req(q.mac, q.ip, q.state, q.flags, cfg.dst_port,
                               IF q.nda_vni = {} THEN cfg.vni
                               ELSE CHOOSE v \in q.nda_vni : TRUE,
                               0, q.ndm_flags),
                           alloc_f, alloc_rd) } :
               /\ fdb_head' = r.head
               /\ addrcnt' = r.addrcnt
               /\ out' = Ret("fdb_add", q, r.err, r.nl)
    /\ UNCHANGED <<dev_state, cfg, jiffies, age_timer, vn_sock, rcu, udp, vn, ns, lk>>

\* vxlan_fdb_delete() that destroys the entry whenever it finds the destination
vxlan_fdb_delete_destroy(mac, ip) ==
    /\ Registered
    /\ \E fm \in {vxlan_find_mac(fdb_head, mac, jiffies)} :
          IF fm.i = 0
          THEN /\ out' = Ret("fdb_delete", <<mac, ip>>, -ENOENT, <<>>)
               /\ UNCHANGED <<fdb_head, addrcnt>>
          ELSE \E f \in {EntryAt(fm.head, mac, fm.i)} :
               \E rd \in {vxlan_fdb_find_rdst(f, ip, cfg.dst_port, cfg.vni, 0)} :
                  IF ip # INADDR_ANY /\ rd = 0
                  THEN /\ out' = Ret("fdb_delete", <<mac, ip>>, -ENOENT, <<>>)
                       /\ fdb_head' = fm.head
                       /\ UNCHANGED addrcnt
                  ELSE \E st \in {vxlan_fdb_destroy(FdbSt(fm.head, addrcnt, <<>>), mac)} :
                       /\ out' = Ret("fdb_delete", <<mac, ip>>, 0, st.nl)
                       /\ fdb_head' = st.head
                       /\ addrcnt' = st.addrcnt
    /\ UNCHANGED <<dev_state, cfg, jiffies, age_timer, vn_sock, rcu, udp, vn, ns, lk>>

\* vxlan_fdb_delete().  ip is INADDR_ANY when NDA_DST is missing.
vxlan_fdb_delete(mac, ip) ==
    /\ Registered
    /\ \E fm \in {vxlan_find_mac(fdb_head, mac, jiffies)} :
          IF fm.i = 0
          THEN /\ out' = Ret("fdb_delete", <<mac, ip>>, -ENOENT, <<>>)
               /\ UNCHANGED <<fdb_head, addrcnt>>
          ELSE \E f \in {EntryAt(fm.head, mac, fm.i)} :
               \E rd \in {vxlan_fdb_find_rdst(f, ip, cfg.dst_port, cfg.vni, 0)} :
                  IF ip # INADDR_ANY /\ rd = 0
                  THEN /\ out' = Ret("fdb_delete", <<mac, ip>>, -ENOENT, <<>>)
                       /\ fdb_head' = fm.head
                       /\ UNCHANGED addrcnt
                  ELSE IF ip # INADDR_ANY /\ Len(f.remotes) # 1
                  THEN /\ out' = Ret("fdb_delete", <<mac, ip>>, 0, <<>>)
                       /\ fdb_head' = SetEntryAt(fm.head, mac, fm.i,
                                                 [f EXCEPT !.remotes = RemoveAt(@, rd)])
                       /\ UNCHANGED addrcnt
                  ELSE \E st \in {vxlan_fdb_destroy(FdbSt(fm.head, addrcnt, <<>>), mac)} :
                       /\ out' = Ret("fdb_delete", <<mac, ip>>, 0, st.nl)
                       /\ fdb_head' = st.head
                       /\ addrcnt' = st.addrcnt
    /\ UNCHANGED <<dev_state, cfg, jiffies, age_timer, vn_sock, rcu, udp, vn, ns, lk>>

\* vxlan_cleanup(): the age_timer fires
vxlan_cleanup ==
    /\ age_timer.pending
    /\ jiffies >= age_timer.expires
    /\ IF ~netif_running
       THEN /\ age_timer' = [age_timer EXCEPT !.pending = FALSE]
            /\ out' = Ret("cleanup", <<>>, 0, <<>>)
            /\ UNCHANGED <<fdb_head, addrcnt>>
       ELSE \E w \in { CleanupWalk(Walk(fdb_head), FdbSt(fdb_head, addrcnt, <<>>),
                                   jiffies + FDB_AGE_INTERVAL, jiffies, cfg.age_interval) } :
               /\ fdb_head' = w.st.head
               /\ addrcnt' = w.st.addrcnt
               /\ age_timer' = [pending |-> TRUE, expires |-> w.next_timer]
               /\ out' = Ret("cleanup", <<>>, 0, w.st.nl)
    /\ UNCHANGED <<dev_state, cfg, jiffies, vn_sock, rcu, udp, vn, ns, lk>>

---------------------------------------------------------------------------
(* The packet paths *)

INADDR_LOOPBACK == <<127, 0, 0, 1>>

\* The four ECN codepoints of an IP header
ECN == {"NOT_ECT", "ECT_1", "ECT_0", "CE"}

\* a received packet: the VNI of the header, the inner source address, the
\* outer source address, the ECN field of the outer and of the inner IP header
RxPkt(vni, src_mac, src_ip, outer, inner) ==
    [vni |-> vni, src_mac |-> src_mac, src_ip |-> src_ip, outer |-> outer, inner |-> inner]

\* INET_ECN_set_ce(skb) as vxlan_rcv uses it: err > 1 for a congestion mark on
\* the outer header of a packet whose inner header cannot carry it, else the
\* mark is copied to the inner header.
INET_ECN_set_ce(skb) ==
    IF skb.outer = "CE"
    THEN IF skb.inner = "NOT_ECT"
         THEN [err |-> 2, inner |-> skb.inner]
         ELSE [err |-> 0, inner |-> "CE"]
    ELSE [err |-> 0, inner |-> skb.inner]

\* the rest of vxlan_rcv once vxlan_snoop has let the packet through
rcv_deliver_any(p, nl) ==
    With(INET_ECN_set_ce(p), LAMBDA d :
        [Out("rcv", p, 0, nl, <<>>, 1, CountPkt(NoCount, "rx", skb_len))
           EXCEPT !.ecn = <<d.inner>>])

rcv_deliver(p, nl) ==
    With(INET_ECN_set_ce(p), LAMBDA d :
        IF d.err > 1
        THEN [Out("rcv", p, 0, nl, <<>>, 0,
                  Bump(Bump(NoCount, "rx_frame_errors"), "rx_errors"))
                EXCEPT !.ecn = <<d.inner>>]
        ELSE [Out("rcv", p, 0, nl, <<>>, 1, CountPkt(NoCount, "rx", skb_len))
                EXCEPT !.ecn = <<d.inner>>])

\* vxlan_rcv() that takes every VNI for the endpoint's
vxlan_rcv_any_vni(p, alloc_f, alloc_rd, wild_eq) ==
    /\ vn_sock.attached
    /\ IF p.src_mac = dev_addr
       THEN /\ out' = Ret("rcv", p, 0, <<>>)
            /\ UNCHANGED <<fdb_head, addrcnt>>
       ELSE \E sn \in { IF "LEARN" \in cfg.flags
                       THEN vxlan_snoop(FdbSt(fdb_head, addrcnt, <<>>), cfg, netif_running,
                                        jiffies, p.src_ip, p.src_mac,
                                        alloc_f, alloc_rd, wild_eq)
                       ELSE SnoopRes(FALSE, fdb_head, addrcnt, <<>>) } :
               /\ fdb_head' = sn.head
               /\ addrcnt' = sn.addrcnt
               /\ out' = IF sn.drop
                         THEN Ret("rcv", p, 0, sn.nl)
                         ELSE rcv_deliver(p, sn.nl)
    /\ UNCHANGED <<dev_state, cfg, jiffies, age_timer, vn_sock, rcu, udp, vn, ns, lk>>

\* vxlan_rcv() of packet p, called by the listener for a datagram it accepted
vxlan_rcv(p, alloc_f, alloc_rd, wild_eq) ==
    /\ vn_sock.attached
    /\ IF p.vni # cfg.vni \/ p.src_mac = dev_addr
       THEN /\ out' = Ret("rcv", p, 0, <<>>)
            /\ UNCHANGED <<fdb_head, addrcnt>>
       ELSE \E sn \in { IF "LEARN" \in cfg.flags
                       THEN vxlan_snoop(FdbSt(fdb_head, addrcnt, <<>>), cfg, netif_running,
                                        jiffies, p.src_ip, p.src_mac,
                                        alloc_f, alloc_rd, wild_eq)
                       ELSE SnoopRes(FALSE, fdb_head, addrcnt, <<>>) } :
               /\ fdb_head' = sn.head
               /\ addrcnt' = sn.addrcnt
               /\ out' = IF sn.drop
                         THEN Ret("rcv", p, 0, sn.nl)
                         ELSE rcv_deliver(p, sn.nl)
    /\ UNCHANGED <<dev_state, cfg, jiffies, age_timer, vn_sock, rcu, udp, vn, ns, lk>>

\* What happens to one destination of a frame: whether skb_clone succeeds, what
\* ip_route_output_key finds ("none", "self": out of this very device, "local",
\* "out"), what vxlan_xmit_skb returns, whether netif_rx takes a frame that
\* bypasses the encapsulation, and the inputs of the vxlan_snoop of the bypass.
XmitEnv(clone, route, sent, rx_ok, alloc_rd, wild_eq) ==
    [clone |-> clone, route |-> route, sent |-> sent, rx_ok |-> rx_ok,
     alloc_f |-> TRUE, alloc_rd |-> alloc_rd, wild_eq |-> wild_eq]

XmitEnvs ==
    { XmitEnv(FALSE, "none", 0, TRUE, TRUE, FALSE),
      XmitEnv(TRUE, "none", 0, TRUE, TRUE, FALSE),
      XmitEnv(TRUE, "local", 0, TRUE, TRUE, FALSE),
      XmitEnv(TRUE, "local", 0, FALSE, TRUE, FALSE),
      XmitEnv(TRUE, "out", 0, TRUE, TRUE, FALSE),
      XmitEnv(TRUE, "out", 1, TRUE, TRUE, FALSE) }

\* The state a transmit works on: the FDB, its increments of the counters, the
\* destinations vxlan_xmit_one was called with, and the frames handed to netif_rx
XmitSt(st, cnt, calls, up) == [st |-> st, stats |-> cnt, calls |-> calls, up |-> up]

\* vxlan_encap_bypass() that counts the frame as received whatever netif_rx returns
vxlan_encap_bypass_count_any(x, c, running, now, src_mac, e) ==
    With(IF "LEARN" \in c.flags
         THEN With(vxlan_snoop(x.st, c, running, now, INADDR_LOOPBACK, src_mac,
                               e.alloc_f, e.alloc_rd, e.wild_eq),
                   LAMBDA sn : FdbSt(sn.head, sn.addrcnt, sn.nl))
         ELSE x.st, LAMBDA st1 :
        XmitSt(st1, CountPkt(CountPkt(x.stats, "tx", skb_len), "rx", skb_len),
               x.calls, IF e.rx_ok THEN x.up + 1 ELSE x.up))

\* vxlan_encap_bypass() into this endpoint itself (src_vxlan = dst_vxlan)
vxlan_encap_bypass(x, c, running, now, src_mac, e) ==
    With(IF "LEARN" \in c.flags
         THEN With(vxlan_snoop(x.st, c, running, now, INADDR_LOOPBACK, src_mac,
                               e.alloc_f, e.alloc_rd, e.wild_eq),
                   LAMBDA sn : FdbSt(sn.head, sn.addrcnt, sn.nl))
         ELSE x.st, LAMBDA st1 :
        IF e.rx_ok
        THEN XmitSt(st1, CountPkt(CountPkt(x.stats, "tx", skb_len), "rx", skb_len),
                    x.calls, x.up + 1)
        ELSE XmitSt(st1, Bump(CountPkt(x.stats, "tx", skb_len), "rx_dropped"), x.calls, x.up))

\* vxlan_find_vni(): the namespace of the model holds this endpoint alone, so
\* the lookup finds it, when it is attached to its socket, or nothing
vxlan_find_vni(attached, c, vni, port) == attached /\ vni = c.vni /\ port = c.dst_port

\* vxlan_xmit_one() that short-circuits every frame to a destination without address
vxlan_xmit_one_bypass_any(x0, c, running, now, attached, rdst, src_mac, did_rsc, e) ==
    With([x0 EXCEPT !.calls = Append(@, rdst)], LAMBDA x :
        IF rdst.remote_ip = INADDR_ANY
        THEN vxlan_encap_bypass(x, c, running, now, src_mac, e)
        ELSE [x EXCEPT !.stats = Bump(@, "tx_errors")])

\* vxlan_xmit_one() for destination rdst of a frame from src_mac
vxlan_xmit_one(x0, c, running, now, attached, rdst, src_mac, did_rsc, e) ==
    With([x0 EXCEPT !.calls = Append(@, rdst)], LAMBDA x :
        IF rdst.remote_ip = INADDR_ANY
        THEN IF did_rsc
             THEN vxlan_encap_bypass(x, c, running, now, src_mac, e)
             ELSE [x EXCEPT !.stats = Bump(@, "tx_dropped")]
        ELSE IF e.route = "none"
        THEN [x EXCEPT !.stats = Bump(Bump(@, "tx_carrier_errors"), "tx_errors")]
        ELSE IF e.route = "self"
        THEN [x EXCEPT !.stats = Bump(Bump(@, "collisions"), "tx_errors")]
        ELSE IF e.route = "local"
        THEN IF vxlan_find_vni(attached, c, rdst.remote_vni,
                               IF rdst.remote_port # 0 THEN rdst.remote_port
                               ELSE c.dst_port)
             THEN vxlan_encap_bypass(x, c, running, now, src_mac, e)
             ELSE [x EXCEPT !.stats = Bump(@, "tx_errors")]
        ELSE IF e.sent < 0
        THEN [x EXCEPT !.stats = Bump(@, "tx_errors")]
        ELSE IF e.sent > 0
        THEN [x EXCEPT !.stats = CountPkt(@, "tx", e.sent)]
        ELSE [x EXCEPT !.stats = Bump(Bump(@, "tx_errors"), "tx_aborted_errors")])

RECURSIVE XmitLoop(_, _, _, _, _, _, _, _, _, _)
\* the loop of vxlan_xmit without the test of what skb_clone returned
XmitLoop_unchecked(remotes, i, envs, x, c, running, now, attached, src_mac, did_rsc) ==
    IF i > Len(remotes) THEN x
    ELSE XmitLoop(remotes, i + 1, envs,
                  vxlan_xmit_one(x, c, running, now, attached, remotes[i], src_mac,
                                 did_rsc, envs[i]),
                  c, running, now, attached, src_mac, did_rsc)

\* the loop of vxlan_xmit over the remotes of the selected entry; envs[i] is
\* what the underlay does with the i-th destination
XmitLoop(remotes, i, envs, x, c, running, now, attached, src_mac, did_rsc) ==
    IF i > Len(remotes) THEN x
    ELSE XmitLoop(remotes, i + 1, envs,
                  IF envs[i].clone
                  THEN vxlan_xmit_one(x, c, running, now, attached, remotes[i], src_mac,
                                      did_rsc, envs[i])
                  ELSE x,
                  c, running, now, attached, src_mac, did_rsc)

\* vxlan_fdb_miss(): an RTM_GETNEIGH about an address without entry
vxlan_fdb_miss(nl, mac) == Append(nl, [type |-> "RTM_GETNEIGH", mac |-> mac])

\* neigh_lookup() found no neighbour entry for the IP destination of a frame
NoNeigh == <<>>

\* route_shortcircuit() of an IPv4 frame to dst_mac; ha is the hardware address
\* of the neighbour entry of its IP destination, NoNeigh when there is none (a
\* frame too short for its IP header ends the same way).  TRUE: the frame now
\* goes to ha and comes from dst_mac.  No endpoint of Configs has L3MISS.
route_shortcircuit(dst_mac, ha) ==
    ~is_multicast_ether_addr(dst_mac) /\ ha # NoNeigh /\ ha # dst_mac

\* a frame as vxlan_xmit leaves it (route_shortcircuit rewrites the addresses
\* in place), whether it was short-circuited, and what the underlay does with
\* each of its copies
TxFrame(dst_mac, src_mac, did_rsc, envs) ==
    [dst_mac |-> dst_mac, src_mac |-> src_mac, did_rsc |-> did_rsc, envs |-> envs]

\* vxlan_xmit() of an IPv4 frame from src_mac to dst_mac (arp_reduce is for ARP
\* frames only); ha is what neigh_lookup finds for its IP destination.
vxlan_xmit(dst_mac, src_mac, ha) ==
    /\ netif_running
    /\ \E fm0 \in {vxlan_find_mac(fdb_head, dst_mac, jiffies)} :
       \E did_rsc \in { /\ fm0.i # 0
                        /\ HasBit(EntryAt(fm0.head, dst_mac, fm0.i).flags, NTF_ROUTER)
                        /\ "RSC" \in cfg.flags
                        /\ route_shortcircuit(dst_mac, ha) } :
       \E eth \in { IF did_rsc THEN [h_dest |-> ha, h_source |-> dst_mac]
                   ELSE [h_dest |-> dst_mac, h_source |-> src_mac] } :
       \E fm1 \in { IF did_rsc THEN vxlan_find_mac(fm0.head, eth.h_dest, jiffies) ELSE fm0 } :
       \E fm \in { IF fm1.i # 0 THEN fm1
                  ELSE vxlan_find_mac(fm1.head, all_zeros_mac, jiffies) } :
          IF fm.i = 0
          THEN /\ out' = Out("xmit", TxFrame(eth.h_dest, eth.h_source, did_rsc, <<>>), 0,
                             IF "L2MISS" \in cfg.flags /\ ~is_multicast_ether_addr(eth.h_dest)
                             THEN vxlan_fdb_miss(<<>>, eth.h_dest) ELSE <<>>,
                             <<>>, 0, Bump(NoCount, "tx_dropped"))
               /\ fdb_head' = fm.head
               /\ UNCHANGED addrcnt
          ELSE \E remotes \in { EntryAt(fm.head,
                                        IF fm1.i # 0 THEN eth.h_dest ELSE all_zeros_mac,
                                        fm.i).remotes } :
               \E envs \in [1..Len(remotes) -> XmitEnvs] :
               \E r \in { XmitLoop(remotes, 1, envs,
                                   XmitSt(FdbSt(fm.head, addrcnt, <<>>), NoCount, <<>>, 0),
                                   cfg, netif_running, jiffies, vn_sock.attached,
                                   eth.h_source, did_rsc) } :
                  /\ fdb_head' = r.st.head
                  /\ addrcnt' = r.st.addrcnt
                  /\ out' = Out("xmit", TxFrame(eth.h_dest, eth.h_source, did_rsc, envs), 0,
                                r.st.nl, r.calls, r.up, r.stats)
    /\ UNCHANGED <<dev_state, cfg, jiffies, age_timer, vn_sock, rcu, udp, vn, ns, lk>>

---------------------------------------------------------------------------
(* The specification of one endpoint *)

\* the packets and frames of the model
RxPkts ==
    { RxPkt(10, MacU1, IpA, "NOT_ECT", "NOT_ECT"), RxPkt(10, MacU1, IpB, "CE", "ECT_0"),
      RxPkt(10, MacU1, IpA, "CE", "NOT_ECT"), RxPkt(10, MacU1, IpB, "ECT_0", "ECT_1"),
      RxPkt(10, MacU1, IpA, "CE", "CE"),
      RxPkt(11, MacU1, IpA, "NOT_ECT", "NOT_ECT"), RxPkt(10, dev_addr, IpA, "CE", "NOT_ECT") }

TxDstMacs == {MacU1, MacU2, MacM1, all_zeros_mac}

Next ==
    \/ Tick
    \/ \E a \in Allocs, reg_ok, sock_found \in BOOLEAN :
          vxlan_newlink(a.f, a.rd, reg_ok, sock_found)
    \/ \E bind_ok \in BOOLEAN : vxlan_sock_work(bind_ok)
    \/ vxlan_open
    \/ vxlan_stop
    \/ vxlan_dellink
    \/ \E q \in (IF "RSC" \in cfg.flags THEN RscReqs ELSE AdminReqs), a \in Allocs :
          vxlan_fdb_add(q, a.f, a.rd)
    \/ \E mac \in MACS, ip \in IPS \cup {INADDR_ANY} : vxlan_fdb_delete(mac, ip)
    \/ vxlan_cleanup
    \/ \E p \in RxPkts, a \in SnoopEnvs : vxlan_rcv(p, a.f, a.rd, a.wild_eq)
    \/ \E dst_mac \in TxDstMacs, ha \in (IF "RSC" \in cfg.flags THEN {NoNeigh, MacU2}
                                           ELSE {NoNeigh}) :
          vxlan_xmit(dst_mac, MacU1, ha)

Spec == Init /\ [][Next]_vars

---------------------------------------------------------------------------
(* One entry under RCU: a writer and lock-free readers *)

\* the remotes list as the sequence of its members, head first
RECURSIVE ListFrom(_, _)
ListFrom(next, k) == IF next[k] = 0 THEN <<>> ELSE <<next[k]>> \o ListFrom(next, next[k])

\* list_add_tail_rcu(): k becomes the last member
list_add_tail_rcu(next, k) ==
    With(ListFrom(next, 0), LAMBDA l :
        [next EXCEPT ![k] = 0, ![IF l = <<>> THEN 0 ELSE l[Len(l)]] = k])

\* list_del_rcu(): the predecessor of k skips k; k keeps its forward pointer
list_del_rcu(next, k) ==
    With(<<0>> \o ListFrom(next, 0), LAMBDA l :
        [next EXCEPT ![l[CHOOSE i \in 1..Len(l) : next[l[i]] = k]] = next[k]])

\* the readers inside a read-side critical section
InCs(r) == {x \in Readers : r.rd[x].pc # "out"}

\* call_rcu(): the object is retired; its callback runs once every reader that
\* is inside a read-side critical section now has left it
call_rcu(r, o) == [r EXCEPT !.mem[o] = "retired", !.wait[o] = InCs(r)]

RcuOnly == UNCHANGED <<dev_state, cfg, fdb_head, addrcnt, jiffies, age_timer, vn_sock, out, udp, vn, ns, lk>>

\* the writer, vxlan_fdb_create() of an entry that does not exist: the entry is
\* allocated, the destination appended if its allocation succeeds, and the
\* entry linked into its chain
RcuCreate(alloc_rd) ==
    /\ rcu.mem[0] = "none"
    /\ rcu' = [rcu EXCEPT !.mem[0] = "live",
                          !.mem[1] = IF alloc_rd THEN "live" ELSE @,
                          !.next = IF alloc_rd THEN list_add_tail_rcu(@, 1) ELSE @,
                          !.linked = TRUE]
    /\ RcuOnly

\* the writer, vxlan_fdb_append() to the linked entry
RcuAppend(k, alloc) ==
    /\ rcu.linked
    /\ rcu.mem[k] = "none"
    /\ rcu' = IF alloc
              THEN [rcu EXCEPT !.mem[k] = "live", !.next = list_add_tail_rcu(@, k)]
              ELSE rcu
    /\ RcuOnly

\* the writer, vxlan_fdb_delete() of destination k of an entry with more than one
RcuDeleteRdst(k) ==
    /\ rcu.linked
    /\ \E i \in 1..Len(ListFrom(rcu.next, 0)) : ListFrom(rcu.next, 0)[i] = k
    /\ Len(ListFrom(rcu.next, 0)) # 1
    /\ rcu' = call_rcu([rcu EXCEPT !.next = list_del_rcu(@, k)], k)
    /\ RcuOnly

\* the writer, vxlan_fdb_destroy(): by vxlan_fdb_delete of the entry, vxlan_cleanup or vxlan_flush
RcuDestroy ==
    /\ rcu.linked
    /\ rcu' = call_rcu([rcu EXCEPT !.linked = FALSE], 0)
    /\ RcuOnly

\* the callback of a retired destination after its grace period
vxlan_fdb_free_rdst(k) ==
    /\ k \in Rdsts
    /\ rcu.mem[k] = "retired"
    /\ rcu.wait[k] = {}
    /\ rcu' = [rcu EXCEPT !.mem[k] = "free"]
    /\ RcuOnly

\* the callback of a retired entry after its grace period: the destinations
\* still on its list are freed with it
vxlan_fdb_free ==
    /\ rcu.mem[0] = "retired"
    /\ rcu.wait[0] = {}
    /\ rcu' = [rcu EXCEPT !.mem = [o \in Objs |->
                  IF o = 0 \/ \E i \in 1..Len(ListFrom(rcu.next, 0)) :
                                  ListFrom(rcu.next, 0)[i] = o
                  THEN "free" ELSE @[o]]]
    /\ RcuOnly

\* a reader enters its read-side critical section
rcu_read_lock(x) ==
    /\ rcu.rd[x].pc = "out"
    /\ rcu' = [rcu EXCEPT !.rd[x].pc = "in"]
    /\ RcuOnly

\* a reader looks the entry up: __vxlan_find_mac() walks the chain
RcuFindMac(x) ==
    /\ rcu.rd[x].pc = "in"
    /\ rcu.linked
    /\ rcu' = [rcu EXCEPT !.rd[x].pc = "entry"]
    /\ RcuOnly

\* a reader holding the entry takes the first destination: first_remote_rcu()
\* in vxlan_snoop, the first step of list_for_each_entry_rcu in vxlan_xmit
RcuFirstRemote(x) ==
    /\ rcu.rd[x].pc = "entry"
    /\ rcu' = IF rcu.next[0] = 0
              THEN [rcu EXCEPT !.rd[x].pc = "empty"]
              ELSE [rcu EXCEPT !.rd[x].pc = "walk", !.rd[x].cur = rcu.next[0]]
    /\ RcuOnly

\* a reader steps to the next destination: list_for_each_entry_rcu in vxlan_xmit
RcuNextRemote(x) ==
    /\ rcu.rd[x].pc = "walk"
    /\ rcu' = IF rcu.next[rcu.rd[x].cur] = 0
              THEN [rcu EXCEPT !.rd[x].pc = "end", !.rd[x].cur = 0]
              ELSE [rcu EXCEPT !.rd[x].cur = rcu.next[rcu.rd[x].cur]]
    /\ RcuOnly

\* a reader leaves its read-side critical section: no grace period waits for it any more
rcu_read_unlock(x) ==
    /\ rcu.rd[x].pc # "out"
    /\ rcu' = [rcu EXCEPT !.rd[x] = [pc |-> "out", cur |-> 0],
                          !.wait = [o \in Objs |-> @[o] \ {x}]]
    /\ RcuOnly

NextRcu ==
    \/ \E alloc_rd \in BOOLEAN : RcuCreate(alloc_rd)
    \/ \E k \in Rdsts, alloc \in BOOLEAN : RcuAppend(k, alloc)
    \/ \E k \in Rdsts : RcuDeleteRdst(k)
    \/ RcuDestroy
    \/ \E k \in Rdsts : vxlan_fdb_free_rdst(k)
    \/ vxlan_fdb_free
    \/ \E x \in Readers :
          \/ rcu_read_lock(x)
          \/ RcuFindMac(x)
          \/ RcuFirstRemote(x)
          \/ RcuNextRemote(x)
          \/ rcu_read_unlock(x)

SpecRcu == Init /\ [][NextRcu]_vars

\* the objects a reader holds a pointer to
Held(x) ==
    (IF rcu.rd[x].pc \in {"entry", "walk", "empty", "end"} THEN {0} ELSE {})
    \cup (IF rcu.rd[x].pc = "walk" THEN {rcu.rd[x].cur} ELSE {})

\* C2: a reader inside its read-side critical section never observes the entry
\* with an empty remotes list, and never holds an entry or destination that has
\* been freed: what is unlinked is freed only after a grace period.
C2_ReadersSafe ==
    \A x \in Readers :
       /\ rcu.rd[x].pc # "empty"
       /\ \A o \in Held(x) : rcu.mem[o] # "free"

---------------------------------------------------------------------------
(* The receive decoder *)

VXLAN_FLAGS == 134217728

\* htonl(): a 32-bit number as the four octets of a __be32, in memory order
htonl(x) == <<x \div 16777216, (x \div 65536) % 256, (x \div 256) % 256, x % 256>>

\* a & b on octets
RECURSIVE And8(_, _, _)
And8(a, b, n) ==
    IF n = 0 THEN 0
    ELSE ((a % 2) * (b % 2)) + 2 * And8(a \div 2, b \div 2, n - 1)

\* a & b on __be32 words
And32(v, w) == [i \in 1..4 |-> And8(v[i], w[i], 8)]

\* sizeof(struct udphdr), sizeof(struct vxlanhdr) and VXLAN_HLEN
UdpHdrLen == 8
VxlanHdrLen == 8
VXLAN_HLEN == UdpHdrLen + VxlanHdrLen

\* The UDP payloads of the model: the flags word followed by the VNI word, and
\* payloads too short to hold the header
FlagWords == { htonl(VXLAN_FLAGS), htonl(0), htonl(VXLAN_FLAGS + 1), htonl(VXLAN_FLAGS + 16777216),
               <<136, 0, 0, 0>> }
VniWords == { <<0, 0, 10, 0>>, <<0, 0, 10, 1>>, <<0, 0, 11, 0>>, <<255, 255, 255, 0>>,
              <<0, 0, 0, 255>>, <<0, 0, 0, 0>> }
Payloads ==
    {f \o v : f \in FlagWords, v \in VniWords}
    \cup { <<>>, htonl(VXLAN_FLAGS), htonl(VXLAN_FLAGS) \o <<0, 0, 10>> }

\* A u32 as two 16-bit limbs, low limb first: a shift by 8 of a 24-bit VNI has
\* all 32 bits in use
U32(x) == <<x % Limb, x \div Limb>>

\* x << k and x >> k on a u32, for k below 16
Shl32(x, k) == <<(x[1] * (2 ^ k)) % Limb, ((x[2] * (2 ^ k)) % Limb) + (x[1] \div (2 ^ (16 - k)))>>
Shr32(x, k) == <<(x[1] \div (2 ^ k)) + ((x[2] % (2 ^ k)) * (2 ^ (16 - k))), x[2] \div (2 ^ k)>>

\* htonl() of a u32 held in limbs, and ntohl() into limbs
htonl_u32(x) == <<x[2] \div 256, x[2] % 256, x[1] \div 256, x[1] % 256>>
ntohl(o) == <<o[3] * 256 + o[4], o[1] * 256 + o[2]>>

\* struct vxlanhdr as vxlan_xmit_skb writes it
vxlanhdr(vx_flags, vx_vni) == vx_flags \o vx_vni

\* the vni argument of vxlan_xmit_skb with the VNI not shifted
XmitVni_unshifted(vni) == htonl_u32(U32(vni))

\* the vni argument vxlan_xmit_one gives to vxlan_xmit_skb: htonl(vni << 8)
XmitVni(vni) == htonl_u32(Shl32(U32(vni), 8))

\* the VNI vxlan_rcv looks up: ntohl(vx_vni) >> 8
RcvVni(vx_vni) == Shr32(ntohl(vx_vni), 8)

\* the VNIs of the frames the model transmits
TxVnis == {0, 1, 10, 255, 256, 65535, 65536, 8388607, 8388608, VXLAN_N_VID - 1}

\* A datagram on the socket: its payload behind the UDP header, whether
\* pskb_may_pull finds the memory to linearise the header, whether
\* iptunnel_pull_header succeeds, and whether vxlan_find_sock finds the socket
Datagrams ==
    [payload : Payloads, mem_ok : BOOLEAN, tunnel_ok : BOOLEAN, sock : BOOLEAN]

UdpOnly == UNCHANGED <<dev_state, cfg, fdb_head, addrcnt, jiffies, age_timer, vn_sock, out, rcu, vn, ns, lk>>

\* the UDP layer has a datagram for the encapsulation socket
udp_queue_rcv_skb(d) ==
    /\ udp.pc \in {"idle", "done"}
    /\ udp' = [pc |-> "encap_rcv", skb |-> d]
    /\ UdpOnly

\* vxlan_xmit_skb() for a destination with VNI vni: the header it pushes in
\* front of the frame, and the datagram arriving at the socket of the peer
vxlan_xmit_skb(vni, mem_ok, tunnel_ok, sock) ==
    /\ udp.pc \in {"idle", "done"}
    /\ udp' = [pc |-> "encap_rcv",
               skb |-> [payload |-> vxlanhdr(htonl(VXLAN_FLAGS), XmitVni(vni)),
                        mem_ok |-> mem_ok, tunnel_ok |-> tunnel_ok, sock |-> sock]]
    /\ UdpOnly

\* pskb_may_pull(skb, len) with skb->data at the UDP header: the bytes are
\* there and can be made linear
pskb_may_pull(d, len) == UdpHdrLen + Len(d.payload) >= len /\ d.mem_ok

\* what vxlan_udp_encap_recv leaves behind: its return value, whether it freed
\* the skb, and the VNI word it gave to vs->rcv (<<>> when it did not call it)
Decoded(d, ret, freed, rcv) == [pc |-> "done", skb |-> d, ret |-> ret, freed |-> freed, rcv |-> rcv]

\* vxlan_udp_encap_recv() with the test of the flags word alone
vxlan_udp_encap_recv_flags_only ==
    /\ udp.pc = "encap_rcv"
    /\ \E d \in {udp.skb} :
          udp' = IF ~pskb_may_pull(d, VXLAN_HLEN)
                 THEN Decoded(d, 1, FALSE, <<>>)
                 ELSE IF SubSeq(d.payload, 1, 4) # htonl(VXLAN_FLAGS)
                 THEN Decoded(d, 1, FALSE, <<>>)
                 ELSE IF ~d.tunnel_ok \/ ~d.sock
                 THEN Decoded(d, 0, TRUE, <<>>)
                 ELSE Decoded(d, 0, FALSE, SubSeq(d.payload, 5, 8))
    /\ UdpOnly

\* vxlan_udp_encap_recv() that consumes a datagram with reserved bits set
vxlan_udp_encap_recv_drop_reserved ==
    /\ udp.pc = "encap_rcv"
    /\ \E d \in {udp.skb} :
          udp' = IF ~pskb_may_pull(d, VXLAN_HLEN)
                 THEN Decoded(d, 1, FALSE, <<>>)
                 ELSE IF SubSeq(d.payload, 1, 4) # htonl(VXLAN_FLAGS)
                 THEN Decoded(d, 1, FALSE, <<>>)
                 ELSE IF And32(SubSeq(d.payload, 5, 8), htonl(255)) # htonl(0)
                 THEN Decoded(d, 0, TRUE, <<>>)
                 ELSE IF ~d.tunnel_ok \/ ~d.sock
                 THEN Decoded(d, 0, TRUE, <<>>)
                 ELSE Decoded(d, 0, FALSE, SubSeq(d.payload, 5, 8))
    /\ UdpOnly

\* vxlan_udp_encap_recv()
vxlan_udp_encap_recv ==
    /\ udp.pc = "encap_rcv"
    /\ \E d \in {udp.skb} :
          udp' = IF ~pskb_may_pull(d, VXLAN_HLEN)
                 THEN Decoded(d, 1, FALSE, <<>>)
                 ELSE IF SubSeq(d.payload, 1, 4) # htonl(VXLAN_FLAGS)
                         \/ And32(SubSeq(d.payload, 5, 8), htonl(255)) # htonl(0)
                 THEN Decoded(d, 1, FALSE, <<>>)
                 ELSE IF ~d.tunnel_ok \/ ~d.sock
                 THEN Decoded(d, 0, TRUE, <<>>)
                 ELSE Decoded(d, 0, FALSE, SubSeq(d.payload, 5, 8))
    /\ UdpOnly

NextDecode ==
    \/ \E d \in Datagrams : udp_queue_rcv_skb(d)
    \/ \E vni \in TxVnis, mem_ok, tunnel_ok, sock \in BOOLEAN :
          vxlan_xmit_skb(vni, mem_ok, tunnel_ok, sock)
    \/ vxlan_udp_encap_recv

SpecDecode == Init /\ [][NextDecode]_vars

\* the first 32-bit word of the payload is there and is 0x08000000, high octet first
FirstWordIsFlags(payload) == Len(payload) >= 4 /\ SubSeq(payload, 1, 4) = <<8, 0, 0, 0>>

\* C10 as stated: the decoder returns a datagram to the UDP layer as
\* not-a-VXLAN-packet, without consuming it, if and only if the first 32-bit
\* word of its VXLAN header is not exactly 0x08000000.
C10_NotVxlanIffFlags ==
    udp.pc = "done" =>
       /\ (udp.ret = 1) <=> ~FirstWordIsFlags(udp.skb.payload)
       /\ udp.ret = 1 => ~udp.freed

\* C10 amended: the decoder returns a datagram to the UDP layer as
\* not-a-VXLAN-packet, without consuming it, if and only if its VXLAN header
\* cannot be pulled, or the first 32-bit word of the header is not exactly
\* 0x08000000, or the low-order byte of the second word is not zero.
C10_NotVxlanIffReserved ==
    udp.pc = "done" =>
       /\ (udp.ret = 1) <=>
             \/ Len(udp.skb.payload) < VxlanHdrLen
             \/ ~udp.skb.mem_ok
             \/ ~FirstWordIsFlags(udp.skb.payload)
             \/ udp.skb.payload[8] # 0
       /\ udp.ret = 1 => ~udp.freed

\* a datagram with the flags word 0x08000000 and a reserved bit set in the
\* second word has been returned to the UDP layer
C10_Witness ==
    /\ udp.pc = "done"
    /\ Len(udp.skb.payload) = VxlanHdrLen
    /\ udp.skb.mem_ok
    /\ FirstWordIsFlags(udp.skb.payload)
    /\ udp.skb.payload[8] # 0
    /\ udp.ret = 1
    /\ ~udp.freed

\* the VXLAN header of the datagram was pulled, its flags word is 0x08000000
\* and the low-order byte of its VNI word is not zero
ReservedBitsSet(d) ==
    /\ Len(d.payload) >= VxlanHdrLen
    /\ d.mem_ok
    /\ FirstWordIsFlags(d.payload)
    /\ d.payload[8] # 0

\* C11 as stated: a datagram whose flags word is 0x08000000 but whose VNI word
\* has a non-zero low-order byte is consumed and dropped by the decoder; it is
\* not returned to the UDP layer as not-mine.
C11_ReservedDropped ==
    udp.pc = "done" /\ ReservedBitsSet(udp.skb) => udp.ret = 0 /\ udp.freed

\* C11 amended: a datagram whose flags word is 0x08000000 but whose VNI word
\* has a non-zero low-order byte is returned to the UDP layer as not-mine: the
\* decoder neither frees it nor hands it to the receive handler, and no
\* counter of the endpoint moves.
C11_ReservedReturned ==
    /\ udp.pc = "done" /\ ReservedBitsSet(udp.skb) =>
          udp.ret = 1 /\ ~udp.freed /\ udp.rcv = <<>>
    /\ out.cnt = NoCount

\* VNI word 0x00000a01 behind the flags word 0x08000000 came back from the
\* decoder with return value 1
C11_Witness ==
    /\ udp.pc = "done"
    /\ udp.skb.payload = <<8, 0, 0, 0, 0, 0, 10, 1>>
    /\ udp.skb.mem_ok
    /\ udp.ret = 1
    /\ udp.rcv = <<>>

\* the octets of the 32-bit word v * 2^8, high octet first, for v below 2^24
VniWordOf(v) == <<v \div 65536, (v \div 256) % 256, v % 256, 0>>

\* C13: for every VNI v in 0 .. 2^24 - 1 the header written on transmit has the
\* flags word 0x08000000 and the VNI word v * 2^8, and the receive path accepts
\* that header and looks up VNI v.
C13_RoundTrip ==
    \A v \in TxVnis :
       /\ vxlanhdr(htonl(VXLAN_FLAGS), XmitVni(v)) = <<8, 0, 0, 0>> \o VniWordOf(v)
       /\ (udp.pc = "done" /\ udp.skb.payload = <<8, 0, 0, 0>> \o VniWordOf(v) /\ udp.skb.mem_ok)
          => /\ udp.ret = 0
             /\ (udp.skb.tunnel_ok /\ udp.skb.sock)
                => ~udp.freed /\ udp.rcv # <<>> /\ RcvVni(udp.rcv) = U32(v)

\* the header of the largest VNI went through the decoder to the receive handler
C13_Witness ==
    /\ udp.pc = "done"
    /\ udp.skb.payload = <<8, 0, 0, 0, 255, 255, 255, 0>>
    /\ udp.ret = 0
    /\ ~udp.freed
    /\ RcvVni(udp.rcv) = U32(VXLAN_N_VID - 1)

---------------------------------------------------------------------------
(* Properties of the forwarding database *)

\* the entries of a table, and the entries of a table with a given address
AllFdb(head) == UNION { {head[b][i] : i \in 1..Len(head[b])} : b \in Buckets }

FdbOf(head, mac) == {f \in AllFdb(head) : f.eth_addr = mac}

\* the number of entries of a table, chain by chain
RECURSIVE CountFrom(_, _)
CountFrom(head, S) ==
    IF S = {} THEN 0
    ELSE With(CHOOSE b \in S : TRUE, LAMBDA b : Len(head[b]) + CountFrom(head, S \ {b}))

\* the subsequence of s at the positions where keep holds
RECURSIVE SelectAt(_, _, _)
SelectAt(s, keep, i) ==
    IF i > Len(s) THEN <<>>
    ELSE (IF keep[i] THEN <<s[i]>> ELSE <<>>) \o SelectAt(s, keep, i + 1)

\* C1: in every reachable state, every entry of the FDB (every entry a lookup
\* can return) has a non-empty remotes list.
C1_RemotesNonEmpty == \A f \in AllFdb(fdb_head) : f.remotes # <<>>

\* C3: in every reachable state addrcnt equals the number of entries in the
\* hash table, and no address has more than one entry.
C3_AddrcntIsSize ==
    /\ addrcnt = CountFrom(fdb_head, Buckets)
    /\ \A b \in Buckets : \A i, j \in 1..Len(fdb_head[b]) :
          fdb_head[b][i].eth_addr = fdb_head[b][j].eth_addr => i = j
    /\ \A b \in Buckets : \A i \in 1..Len(fdb_head[b]) :
          BucketOf[fdb_head[b][i].eth_addr] = b

\* an entry has been deleted and one is left, after a learning or an add
C3_Witness ==
    /\ out.op = "fdb_delete"
    /\ out.err = 0
    /\ Len(out.nl) = 1
    /\ addrcnt = 1

\* an RTM_NEWNEIGH request that passes vxlan_fdb_parse and asks for a new entry
WouldCreate(head, q) ==
    /\ HasBit(q.state, NUD_PERMANENT) \/ HasBit(q.state, NUD_REACHABLE)
    /\ q.ip # NoDst
    /\ "CREATE" \in q.flags
    /\ FdbOf(head, q.mac) = {}

\* a received packet that reaches vxlan_snoop on a learning endpoint
Snooped(p) == "LEARN" \in cfg.flags /\ p.vni = cfg.vni /\ p.src_mac # dev_addr

AtCapacity == cfg.addrmax > 0 /\ addrcnt = cfg.addrmax

\* C4: when addrmax > 0, addrcnt <= addrmax in every reachable state; an admin
\* add that would create an entry while addrcnt = addrmax returns -ENOSPC, and
\* neither it nor a learning attempt for an unknown address creates an entry.
C4_Capacity ==
    /\ [](cfg.addrmax > 0 => addrcnt <= cfg.addrmax)
    /\ [][ /\ (out'.op = "fdb_add" /\ AtCapacity /\ WouldCreate(fdb_head, out'.arg))
              => (out'.err = -ENOSPC /\ fdb_head' = fdb_head /\ addrcnt' = addrcnt)
           /\ (/\ out'.op = "rcv" /\ AtCapacity /\ netif_running /\ Snooped(out'.arg)
               /\ FdbOf(fdb_head, out'.arg.src_mac) = {})
              => (fdb_head' = fdb_head /\ addrcnt' = addrcnt /\ out'.nl = <<>>) ]_vars

\* a full table has refused an add
C4_Witness ==
    /\ cfg.addrmax > 0
    /\ addrcnt = cfg.addrmax
    /\ out.op = "fdb_add"
    /\ out.err = -ENOSPC

\* an address that is neither multicast nor all-zero
IsUnicast(mac) == ~is_multicast_ether_addr(mac) /\ ~is_zero_ether_addr(mac)

\* C5: in every reachable state an entry keyed by a unicast address (neither
\* multicast nor all-zero) has exactly one destination.
C5_UnicastOneRemote ==
    \A f \in AllFdb(fdb_head) : IsUnicast(f.eth_addr) => Len(f.remotes) = 1

\* the messages of a given type in a sequence of published messages
Published(nl, type) == {nl[i].mac : i \in {k \in 1..Len(nl) : nl[k].type = type}}

StaticElsewhere(head, p) ==
    {f \in FdbOf(head, p.src_mac) :
        /\ HasBit(f.state, NUD_NOARP)
        /\ f.remotes # <<>>
        /\ f.remotes[1].remote_ip # p.src_ip}

\* C7: on an endpoint with LEARN, a received packet whose inner source address
\* has an entry with the NOARP bit whose first destination IP differs from the
\* outer source IP is not delivered upward, rx_packets is not incremented, and
\* the destinations, state and flags of the entry are unchanged.
C7_StaticNotMigrated ==
    [][ (out'.op = "rcv" /\ "LEARN" \in cfg.flags) =>
           \A f \in StaticElsewhere(fdb_head, out'.arg) :
              /\ out'.up = 0
              /\ out'.cnt["rx_packets"] = 0
              /\ \E g \in FdbOf(fdb_head', f.eth_addr) :
                    g.remotes = f.remotes /\ g.state = f.state /\ g.flags = f.flags ]_vars

\* a packet of this endpoint's VNI from another address than the first
\* destination of the static entry of its source has been dropped
C7_Witness ==
    /\ out.op = "rcv"
    /\ Snooped(out.arg)
    /\ StaticElsewhere(fdb_head, out.arg) # {}
    /\ out.up = 0

\* the destination a learning endpoint records for the sender of packet p
LearnedRdst(p) == Rdst(p.src_ip, cfg.dst_port, cfg.vni, 0)

\* C8: on a running endpoint with LEARN, snooping (src_mac, outer_src_ip):
\* without an entry for src_mac, creates the entry src_mac -> {outer_src_ip,
\* endpoint port, endpoint VNI, ifindex 0} with state REACHABLE and flags SELF,
\* unless the table is full; with an entry that is not NOARP and whose first
\* destination IP differs, makes that IP outer_src_ip; with an entry whose
\* first destination IP is outer_src_ip, changes no destination, state or flags.
C8_SnoopEffects ==
    [][ (out'.op = "rcv" /\ netif_running /\ Snooped(out'.arg)) =>
           /\ (FdbOf(fdb_head, out'.arg.src_mac) = {} /\ ~AtCapacity)
              => FdbOf(fdb_head', out'.arg.src_mac)
                    = { Fdb(out'.arg.src_mac, NUD_REACHABLE, NTF_SELF, jiffies,
                            <<LearnedRdst(out'.arg)>>) }
           /\ (FdbOf(fdb_head, out'.arg.src_mac) = {} /\ AtCapacity)
              => fdb_head' = fdb_head
           /\ \A f \in FdbOf(fdb_head, out'.arg.src_mac) :
                 /\ f.remotes # <<>>
                 => \E g \in FdbOf(fdb_head', f.eth_addr) :
                       /\ g.state = f.state
                       /\ g.flags = f.flags
                       /\ g.remotes =
                            IF HasBit(f.state, NUD_NOARP) THEN f.remotes
                            ELSE [f.remotes EXCEPT ![1].remote_ip = out'.arg.src_ip] ]_vars

\* the entry vxlan_xmit selects for a destination address: the entry of the
\* address, else the entry of the all-zero address
Selected(head, dst_mac) ==
    IF FdbOf(head, dst_mac) # {} THEN FdbOf(head, dst_mac) ELSE FdbOf(head, all_zeros_mac)

\* what C9 says of a transmit that finds neither entry
C9_Miss ==
    [][ (out'.op = "xmit" /\ Selected(fdb_head, out'.arg.dst_mac) = {}) =>
           /\ out'.tx = <<>>
           /\ out'.up = 0
           /\ out'.cnt = Bump(NoCount, "tx_dropped")
           /\ Published(out'.nl, "RTM_GETNEIGH") # {}
              => ("L2MISS" \in cfg.flags /\ ~is_multicast_ether_addr(out'.arg.dst_mac))
           /\ addrcnt' = addrcnt ]_vars

\* C9 as stated: vxlan_xmit_one is invoked exactly once per destination of the
\* selected entry, in list order; without a selected entry nothing is sent,
\* tx_dropped is incremented, and an L2MISS notification is emitted only when
\* the endpoint has L2MISS and the destination address is unicast.
C9_OncePerRemote ==
    /\ [][ out'.op = "xmit" =>
              \A f \in Selected(fdb_head, out'.arg.dst_mac) : out'.tx = f.remotes ]_vars
    /\ C9_Miss

\* C9 amended: vxlan_xmit_one is invoked exactly once for each destination of
\* the selected entry for which the frame could be cloned, in list order, and
\* not at all for a destination whose clone failed; the rest as stated.
C9_OncePerClone ==
    /\ [][ out'.op = "xmit" =>
              \A f \in Selected(fdb_head, out'.arg.dst_mac) :
                 /\ Len(out'.arg.envs) = Len(f.remotes)
                 /\ out'.tx = SelectAt(f.remotes,
                                       [i \in 1..Len(f.remotes) |-> out'.arg.envs[i].clone],
                                       1) ]_vars
    /\ C9_Miss

\* a frame to an entry with two destinations: the clone for the first failed,
\* the second was sent
C9_Witness ==
    /\ out.op = "xmit"
    /\ Len(out.arg.envs) = 2
    /\ ~out.arg.envs[1].clone
    /\ out.arg.envs[2].clone
    /\ Len(out.tx) = 1
    /\ out.tx[1].remote_ip = IpB

\* the VNI of a received packet maps to the endpoint in the VNI table of the
\* listener, and its inner source address is not the endpoint's own
RcvMine(p) == vxlan_find_vni(vn_sock.attached, cfg, p.vni, cfg.dst_port) /\ p.src_mac # dev_addr

\* C12: vxlan_rcv delivers a frame upward and counts it in rx_packets only if
\* the VNI of the packet maps to an endpoint of the listener and the inner
\* source address differs from the endpoint's own address; a frame that fails
\* either test is dropped: nothing is delivered, no counter moves, nothing is
\* published and the FDB stays as it was.
C12_DeliverOnlyMine ==
    [][ out'.op = "rcv" =>
           /\ (out'.up > 0 \/ out'.cnt["rx_packets"] > 0) => RcvMine(out'.arg)
           /\ ~RcvMine(out'.arg) =>
                 /\ out'.up = 0
                 /\ out'.cnt = NoCount
                 /\ out'.nl = <<>>
                 /\ fdb_head' = fdb_head
                 /\ addrcnt' = addrcnt ]_vars

\* a packet of the endpoint's VNI that carries the endpoint's own address as
\* its inner source was dropped by an endpoint that learns and holds entries
C12_Witness ==
    /\ out.op = "rcv"
    /\ out.arg.vni = cfg.vni
    /\ out.arg.src_mac = dev_addr
    /\ "LEARN" \in cfg.flags
    /\ addrcnt > 0
    /\ out.up = 0

\* the destination an RTM_DELNEIGH request names, and whether an entry holds
\* a destination
DelDst(arg) == Rdst(arg[2], cfg.dst_port, cfg.vni, 0)

HoldsDst(f, rd) == \E i \in 1..Len(f.remotes) : f.remotes[i] = rd

\* a list of destinations without the destination rd, the others in order
WithoutDst(s, rd) == SelectAt(s, [i \in 1..Len(s) |-> s[i] # rd], 1)

\* table head with entry f replaced by g at the place of f in its chain
Replaced(head, f, g) ==
    [head EXCEPT ![BucketOf[f.eth_addr]] =
        [j \in 1..Len(@) |-> IF @[j].eth_addr = f.eth_addr THEN g ELSE @[j]]]

\* a delete that removed the whole entry of f and published RTM_DELNEIGH for it
WholeEntryRemoved(f) ==
    /\ FdbOf(fdb_head', f.eth_addr) = {}
    /\ AllFdb(fdb_head') = AllFdb(fdb_head) \ {f}
    /\ out'.nl = <<[type |-> "RTM_DELNEIGH", mac |-> f.eth_addr]>>

\* a delete that removed the named destination and nothing else
OneDstRemoved(f) ==
    fdb_head' = Replaced(fdb_head, f, [f EXCEPT !.used = jiffies,
                                                !.remotes = WithoutDst(@, DelDst(out'.arg))])

Parsed(q) == (HasBit(q.state, NUD_PERMANENT) \/ HasBit(q.state, NUD_REACHABLE)) /\ q.ip # NoDst

ReqDst(q) ==
    Rdst(q.ip, cfg.dst_port, IF q.nda_vni = {} THEN cfg.vni ELSE CHOOSE v \in q.nda_vni : TRUE, 0)

\* C15: a request with NLM_F_REPLACE for a unicast address that has an entry
\* succeeds and overwrites the destination of the entry in place: afterwards
\* the entry has exactly one destination, the requested one, and is at the
\* same place in its chain.
C15_ReplaceInPlace ==
    [][ (out'.op = "fdb_add" /\ Parsed(out'.arg) /\ IsUnicast(out'.arg.mac)
         /\ "REPLACE" \in out'.arg.flags /\ "EXCL" \notin out'.arg.flags) =>
           \A f \in FdbOf(fdb_head, out'.arg.mac) :
              /\ out'.err = 0
              /\ \E g \in FdbOf(fdb_head', out'.arg.mac) :
                    /\ g.remotes = <<ReqDst(out'.arg)>>
                    /\ fdb_head' = Replaced(fdb_head, f, g)
              /\ addrcnt' = addrcnt ]_vars

\* a parsed request with NLM_F_REPLACE for a multicast or all-zero address
\* that has an entry or asks for one
ReplaceMulti(head, q) ==
    /\ Parsed(q)
    /\ IsMultiOrZero(q.mac)
    /\ "REPLACE" \in q.flags
    /\ FdbOf(head, q.mac) # {} \/ "CREATE" \in q.flags

\* C16 as stated: a request with NLM_F_REPLACE for a multicast or all-zero
\* address fails with EOPNOTSUPP, both when the address has an entry and when
\* the request would create one.
C16_ReplaceRefused ==
    [][ (out'.op = "fdb_add" /\ ReplaceMulti(fdb_head, out'.arg)) =>
           out'.err = -EOPNOTSUPP ]_vars

\* C16 amended: such a request, without NLM_F_EXCL, fails with EOPNOTSUPP when
\* the address has an entry and when the request would create one in an FDB
\* that is not at its capacity; a request that would create one in an FDB at
\* capacity fails with ENOSPC.  No entry is created and nothing is published.
C16_ReplaceRefusedOrFull ==
    [][ (out'.op = "fdb_add" /\ ReplaceMulti(fdb_head, out'.arg)
         /\ "EXCL" \notin out'.arg.flags) =>
           /\ out'.err = IF FdbOf(fdb_head, out'.arg.mac) = {} /\ AtCapacity
                         THEN -ENOSPC ELSE -EOPNOTSUPP
           /\ addrcnt' = addrcnt
           /\ Published(out'.nl, "RTM_NEWNEIGH") = {} ]_vars

\* NLM_F_REPLACE for the multicast address was refused with EOPNOTSUPP while
\* the address had an entry
C16_Witness ==
    /\ out.op = "fdb_add"
    /\ out.arg.mac = MacM1
    /\ "REPLACE" \in out.arg.flags
    /\ out.err = -EOPNOTSUPP
    /\ FdbOf(fdb_head, MacM1) # {}

\* a parsed request with NLM_F_APPEND alone for a multicast or all-zero address
\* that has an entry
AppendMulti(head, q) ==
    /\ Parsed(q)
    /\ IsMultiOrZero(q.mac)
    /\ "APPEND" \in q.flags
    /\ "EXCL" \notin q.flags
    /\ "REPLACE" \notin q.flags
    /\ FdbOf(head, q.mac) # {}

\* the destinations of the entry of address mac are the list s
RemotesAre(head, mac, s) == \E g \in FdbOf(head, mac) : g.remotes = s

\* C17 as stated: a request with NLM_F_APPEND for a multicast or all-zero
\* address that has an entry adds the destination at the tail of the remotes
\* list when the list does not hold it, and leaves the list as it is when it
\* does; the destinations that were there keep their order.
C17_AppendAtTail ==
    [][ (out'.op = "fdb_add" /\ AppendMulti(fdb_head, out'.arg)) =>
           \A f \in FdbOf(fdb_head, out'.arg.mac) :
              RemotesAre(fdb_head', f.eth_addr,
                         IF HoldsDst(f, ReqDst(out'.arg)) THEN f.remotes
                         ELSE Append(f.remotes, ReqDst(out'.arg))) ]_vars

\* C17 amended: as stated, unless the list does not hold the destination and
\* the destination cannot be allocated: then the request fails with ENOBUFS
\* and leaves the list as it is.
C17_AppendUnlessNoMem ==
    [][ (out'.op = "fdb_add" /\ AppendMulti(fdb_head, out'.arg)) =>
           \A f \in FdbOf(fdb_head, out'.arg.mac) :
              /\ out'.err \in {0, -ENOBUFS}
              /\ out'.err = -ENOBUFS => ~HoldsDst(f, ReqDst(out'.arg))
              /\ RemotesAre(fdb_head', f.eth_addr,
                            IF HoldsDst(f, ReqDst(out'.arg)) \/ out'.err = -ENOBUFS
                            THEN f.remotes
                            ELSE Append(f.remotes, ReqDst(out'.arg)))
              /\ addrcnt' = addrcnt ]_vars

\* 10.0.0.7 was appended to the multicast entry behind 10.0.0.5
C17_Witness ==
    /\ out.op = "fdb_add"
    /\ out.arg.mac = MacM1
    /\ out.arg.ip = IpB
    /\ "APPEND" \in out.arg.flags
    /\ out.err = 0
    /\ RemotesAre(fdb_head, MacM1, <<Rdst(IpA, cfg.dst_port, cfg.vni, 0),
                                     Rdst(IpB, cfg.dst_port, cfg.vni, 0)>>)

\* a parsed request with NLM_F_APPEND alone for a unicast address that has an entry
AppendUni(head, q) ==
    /\ Parsed(q)
    /\ IsUnicast(q.mac)
    /\ "APPEND" \in q.flags
    /\ "EXCL" \notin q.flags
    /\ "REPLACE" \notin q.flags
    /\ FdbOf(head, q.mac) # {}

\* C18 as stated: a request with NLM_F_APPEND and without NLM_F_REPLACE for a
\* unicast address that has an entry fails with EOPNOTSUPP and leaves the
\* destination of the entry as it is.
C18_AppendRefused ==
    [][ (out'.op = "fdb_add" /\ AppendUni(fdb_head, out'.arg)) =>
           \A f \in FdbOf(fdb_head, out'.arg.mac) :
              /\ out'.err = -EOPNOTSUPP
              /\ RemotesAre(fdb_head', f.eth_addr, f.remotes) ]_vars

\* C18 amended: such a request, without NLM_F_EXCL, returns 0 and adds
\* nothing: the destinations of the entry are as they were.
C18_AppendIgnored ==
    [][ (out'.op = "fdb_add" /\ AppendUni(fdb_head, out'.arg)) =>
           \A f \in FdbOf(fdb_head, out'.arg.mac) :
              /\ out'.err = 0
              /\ RemotesAre(fdb_head', f.eth_addr, f.remotes)
              /\ addrcnt' = addrcnt ]_vars

\* NLM_F_APPEND of 10.0.0.7 for the unicast address returned 0 and the entry
\* still has 10.0.0.5 alone
C18_Witness ==
    /\ out.op = "fdb_add"
    /\ out.arg.mac = MacU1
    /\ out.arg.ip = IpB
    /\ "APPEND" \in out.arg.flags
    /\ out.err = 0
    /\ RemotesAre(fdb_head, MacU1, <<Rdst(IpA, cfg.dst_port, cfg.vni, 0)>>)

\* the step created the entry of address mac, or changed its state, its flags
\* or a destination of its list
EntryChanged(mac) ==
    \/ FdbOf(fdb_head, mac) = {} /\ FdbOf(fdb_head', mac) # {}
    \/ \E f \in FdbOf(fdb_head, mac), g \in FdbOf(fdb_head', mac) :
          \/ f.state # g.state
          \/ f.flags # g.flags
          \/ Len(f.remotes) = Len(g.remotes) /\ f.remotes # g.remotes

\* C19: every successful creation of an entry, replacement of its destination
\* (by NLM_F_REPLACE or by a learning migration) and change of its state or
\* flags sets f->updated to jiffies and publishes RTM_NEWNEIGH for it; every
\* lookup of vxlan_xmit that finds an entry sets f->used to jiffies.
C19_UpdatedAndUsed ==
    [][ /\ \A mac \in MACS :
              (out'.err = 0 /\ EntryChanged(mac)) =>
                 /\ mac \in Published(out'.nl, "updated")
                 /\ mac \in Published(out'.nl, "RTM_NEWNEIGH")
        /\ out'.op = "xmit" =>
              \A f \in Selected(fdb_head, out'.arg.dst_mac) :
                 \E g \in FdbOf(fdb_head', f.eth_addr) : g.used = jiffies ]_vars

---------------------------------------------------------------------------
(* The endpoints of one namespace and their sockets *)

NetOnly ==
    UNCHANGED <<dev_state, cfg, fdb_head, addrcnt, jiffies, age_timer, vn_sock, out, rcu, udp, ns, lk>>

\* vxlan_find_sock(): the socket of the port is in the hash of the namespace
NetFindSock(n, port) == n.sock_list[port] > 0

\* vxlan_vs_find_vni(): a device in the VNI list of the socket of the port
NetVsFindVni(n, port, id) ==
    \E d \in Devs : n.devs[d].reg /\ n.devs[d].vn_sock = port /\ n.devs[d].vni = id

\* vxlan_find_vni() in the namespace
NetFindVni(n, id, port) == NetFindSock(n, port) /\ NetVsFindVni(n, port, id)

\* an IFLA_VXLAN_PORT_RANGE attribute; no element when the request has none
PortRange(low, high) == [low |-> low, high |-> high]
NetRanges == { {}, {PortRange(32768, 61000)}, {PortRange(61000, 32768)} }

\* vxlan_validate() of a request with IFLA_VXLAN_ID id and without
\* IFLA_ADDRESS
vxlan_validate(id, range) ==
    IF id >= VXLAN_VID_MASK
    THEN -ERANGE
    ELSE IF \E r \in range : r.high < r.low
    THEN -EINVAL
    ELSE 0

\* the creation of device d with IFLA_VXLAN_ID vni and IFLA_VXLAN_PORT port:
\* vxlan_validate(), then vxlan_newlink();
\* register_netdevice calls vxlan_init, which attaches the device to the socket
\* of its port or queues sock_work
NetNewlink(d, vni, port, range, reg_ok) ==
    /\ ~vn.devs[d].reg
    /\ vn' = IF vxlan_validate(vni, range) # 0
             THEN [vn EXCEPT !.ret = NetRet("newlink", d, vni, port, vxlan_validate(vni, range))]
             ELSE IF NetFindVni(vn, vni, port)
             THEN [vn EXCEPT !.ret = NetRet("newlink", d, vni, port, -EEXIST)]
             ELSE IF ~reg_ok
             THEN [vn EXCEPT !.ret = NetRet("newlink", d, vni, port, -ENOMEM)]
             ELSE IF NetFindSock(vn, port)
             THEN [vn EXCEPT !.devs[d] = NetDev(vni, port, port, FALSE),
                             !.sock_list[port] = @ + 1,
                             !.ret = NetRet("newlink", d, vni, port, 0)]
             ELSE [vn EXCEPT !.devs[d] = NetDev(vni, port, 0, TRUE),
                             !.ret = NetRet("newlink", d, vni, port, 0)]
    /\ NetOnly

\* vxlan_sock_work() of device d with vxlan_sock_add: vxlan_socket_create
\* makes the socket of the port if there is none and the bind succeeds, else
\* the socket that is there is shared, else the device stays without socket
NetSockWork(d, bind_ok) ==
    /\ vn.devs[d].reg
    /\ vn.devs[d].sock_work
    /\ \E port \in {vn.devs[d].dst_port} :
          vn' = IF ~NetFindSock(vn, port) /\ ~bind_ok
                THEN [vn EXCEPT !.devs[d].sock_work = FALSE,
                                !.ret = NetRet("sock_work", d, vn.devs[d].vni, port, 0)]
                ELSE [vn EXCEPT !.devs[d].sock_work = FALSE,
                                !.devs[d].vn_sock = port,
                                !.sock_list[port] = @ + 1,
                                !.ret = NetRet("sock_work", d, vn.devs[d].vni, port, 0)]
    /\ NetOnly

\* vxlan_dellink() of device d with vxlan_uninit and vxlan_sock_release.  A
\* device whose sock_work is queued is held by dev_hold until the work has run.
NetDellink(d) ==
    /\ vn.devs[d].reg
    /\ ~vn.devs[d].sock_work
    /\ vn' = [vn EXCEPT !.devs[d] = NoDev,
                        !.sock_list = IF vn.devs[d].vn_sock = 0 THEN @
                                    ELSE [@ EXCEPT ![vn.devs[d].vn_sock] = @ - 1],
                        !.ret = NetRet("dellink", d, vn.devs[d].vni, vn.devs[d].dst_port, 0)]
    /\ NetOnly

NextNet ==
    \/ \E d \in Devs, vni \in NetVnis, port \in NetPorts, range \in NetRanges,
          reg_ok \in BOOLEAN :
          NetNewlink(d, vni, port, range, reg_ok)
    \/ \E d \in Devs, bind_ok \in BOOLEAN : NetSockWork(d, bind_ok)
    \/ \E d \in Devs : NetDellink(d)

SpecNet == Init /\ [][NextNet]_vars

\* the registered devices with a VNI and destination port
Endpoints(n, vni, port) ==
    {d \in Devs : n.devs[d].reg /\ n.devs[d].vni = vni /\ n.devs[d].dst_port = port}

\* C20: in every reachable state the namespace has at most one endpoint for a
\* VNI and destination port: a vxlan_newlink whose VNI and port are those of an
\* endpoint that exists returns -EEXIST, however the creations interleave with
\* the sock_work of the endpoints created before.
C20_OnePerVniPort ==
    /\ [](\A vni \in NetVnis, port \in NetPorts : Cardinality(Endpoints(vn, vni, port)) <= 1)
    /\ [][ (vn'.ret.op = "newlink" /\ vn' # vn
            /\ Endpoints(vn, vn'.ret.vni, vn'.ret.dst_port) # {})
           => vn'.ret.err = -EEXIST ]_vars

---------------------------------------------------------------------------
(* The sockets of a namespace, one step per lock section *)

\* the most references the model lets a socket collect
MaxRef == 3

\* the most works of devices the model lets wait in vxlan_wq
MaxQueue == 1

NsOnly ==
    UNCHANGED <<dev_state, cfg, fdb_head, addrcnt, jiffies, age_timer, vn_sock, out, rcu, udp, vn, lk>>

IN_MULTICAST(ip) == ip[1] \div 16 = 14

\* vxlan_find_sock(): the address of the socket of the port on vn->sock_list, 0 for NULL
VsFindSock(n, port) ==
    IF \E s \in DOMAIN n.sock : n.sock[s].st = "listed" /\ n.sock[s].port = port
    THEN CHOOSE s \in DOMAIN n.sock : n.sock[s].st = "listed" /\ n.sock[s].port = port
    ELSE 0

\* kernel_bind() of a new UDP socket to INADDR_ANY and the port: it fails while
\* a socket of the namespace is bound to the port
kernel_bind(n, port) ==
    \A s \in DOMAIN n.sock : n.sock[s].st = "free" \/ n.sock[s].port # port

\* queue_work(vxlan_wq, work) of work fn of object x: nothing happens when the
\* work is pending.  a is what the work will read in the object when it runs:
\* the dst_port of the device for sock_work, else its vn_sock.
queue_work(wq, fn, x, a) ==
    IF \E i \in 1..Len(wq) : wq[i].fn = fn /\ wq[i].x = x THEN wq
    ELSE Append(wq, [fn |-> fn, x |-> x, a |-> a])

\* queue_work(vxlan_wq, work) of a work of a device stays inside the bound
Room(wq, fn, x) ==
    \/ \E i \in 1..Len(wq) : wq[i].fn = fn /\ wq[i].x = x
    \/ Cardinality({i \in 1..Len(wq) : wq[i].fn # "del_work"}) < MaxQueue

\* vxlan_group_used(): a running device on vn->vxlan_list has this default remote
vxlan_group_used(n, remote_ip) ==
    \E d \in DOMAIN n.dev : n.dev[d].reg /\ n.dev[d].up /\ n.dev[d].ip = remote_ip

\* vxlan_newlink() whose vxlan_init never shares a socket that exists
VsNewlink_no_share(d, port, ip) ==
    /\ ~ns.oops
    /\ ns.rtnl.pc = "idle"
    /\ ~ns.dev[d].reg
    /\ ns.work.d # d
    /\ \A i \in 1..Len(ns.wq) : ns.wq[i].fn = "del_work" \/ ns.wq[i].x # d
    /\ Room(ns.wq, "sock_work", d)
    /\ ns' = [ns EXCEPT !.dev[d] = [reg |-> TRUE, up |-> FALSE, dst_port |-> port,
                                    ip |-> ip, vn_sock |-> 0],
                        !.wq = queue_work(@, "sock_work", d, port)]
    /\ NsOnly

\* vxlan_newlink() of device d as far as its socket goes: vxlan_init under
\* sock_lock.  The memory of a device is held (dev_hold) as long as a work of
\* it is pending or running, and is not given to a new device before.
VsNewlink(d, port, ip) ==
    /\ ~ns.oops
    /\ ns.rtnl.pc = "idle"
    /\ ~ns.dev[d].reg
    /\ ns.work.d # d
    /\ \A i \in 1..Len(ns.wq) : ns.wq[i].fn = "del_work" \/ ns.wq[i].x # d
    /\ \E vs \in {VsFindSock(ns, port)} :
          /\ vs = 0 => Room(ns.wq, "sock_work", d)
          /\ ns' = IF vs # 0
                   THEN [ns EXCEPT !.sock[vs].refcnt = @ + 1,
                                   !.dev[d] = [reg |-> TRUE, up |-> FALSE, dst_port |-> port,
                                               ip |-> ip, vn_sock |-> vs]]
                   ELSE [ns EXCEPT !.dev[d] = [reg |-> TRUE, up |-> FALSE, dst_port |-> port,
                                               ip |-> ip, vn_sock |-> 0],
                                   !.wq = queue_work(@, "sock_work", d, port)]
    /\ NsOnly

\* vxlan_open() of device d.  dev_open has set __LINK_STATE_START before it
\* calls ndo_open, so the device counts as running in vxlan_group_used.
VsOpen(d) ==
    /\ ~ns.oops
    /\ ns.rtnl.pc = "idle"
    /\ ns.dev[d].reg
    /\ ~ns.dev[d].up
    /\ \E vs \in {ns.dev[d].vn_sock} :
       \E n1 \in {[ns EXCEPT !.dev[d].up = TRUE]} :
          IF vs = 0
          THEN ns' = ns
          ELSE IF IN_MULTICAST(ns.dev[d].ip) /\ vxlan_group_used(n1, ns.dev[d].ip)
          THEN /\ ns.sock[vs].refcnt < MaxRef
               /\ Room(ns.wq, "igmp_join", d)
               /\ ns' = IF ns.sock[vs].st = "free"
                        THEN [ns EXCEPT !.oops = TRUE]
                        ELSE [n1 EXCEPT !.sock[vs].refcnt = @ + 1,
                                        !.wq = queue_work(@, "igmp_join", d, vs)]
          ELSE ns' = n1
    /\ NsOnly

\* vxlan_stop() of a running device d, and with unreg the rest of
\* vxlan_dellink(): unregister_netdevice closes the device if it runs, then
\* vxlan_uninit drops its reference with the first half of vxlan_sock_release,
\* the atomic_dec_and_test.  dev_close has cleared __LINK_STATE_START before it
\* calls ndo_stop.
VsDown(d, unreg) ==
    /\ ~ns.oops
    /\ ns.rtnl.pc = "idle"
    /\ ns.dev[d].reg
    /\ unreg \/ ns.dev[d].up
    /\ \E vs \in {ns.dev[d].vn_sock} :
       \E n1 \in {[ns EXCEPT !.dev[d].up = FALSE]} :
       \E leave \in { /\ ns.dev[d].up
                      /\ vs # 0
                      /\ IN_MULTICAST(ns.dev[d].ip)
                      /\ ~vxlan_group_used(n1, ns.dev[d].ip) } :
       \E n2 \in { IF leave
                   THEN [n1 EXCEPT !.sock[vs].refcnt = @ + 1,
                                   !.wq = queue_work(@, "igmp_leave", d, vs)]
                   ELSE n1 } :
          /\ leave => ns.sock[vs].refcnt < MaxRef /\ Room(ns.wq, "igmp_leave", d)
          /\ ns' = IF vs # 0 /\ ns.sock[vs].st = "free" /\ (leave \/ unreg)
                   THEN [ns EXCEPT !.oops = TRUE]
                   ELSE IF ~unreg
                   THEN n2
                   ELSE IF vs = 0
                   THEN [n2 EXCEPT !.dev[d] = NsIdle.dev[d]]
                   ELSE [n2 EXCEPT !.dev[d] = NsIdle.dev[d],
                                   !.sock[vs].refcnt = @ - 1,
                                   !.rtnl = IF n2.sock[vs].refcnt = 1
                                            THEN [pc |-> "unlink", d |-> 0, s |-> vs]
                                            ELSE @]
    /\ NsOnly

\* vxlan_sock_work(), in the steps between which the other thread can run:
\* vxlan_socket_create up to kernel_bind; its hlist_add_head_rcu under
\* sock_lock, or after a failure the lookup of vxlan_sock_add under sock_lock;
\* vxlan_vs_add_dev under sock_lock.  ok: nothing but the port can make
\* vxlan_socket_create fail.  While the lookup is to come, the s of the thread
\* is the port to look up.
VsSockWork(ok) ==
    /\ ~ns.oops
    /\ IF ns.work.pc = "idle"
       THEN /\ ns.wq # <<>>
            /\ Head(ns.wq).fn = "sock_work"
            /\ \E d \in {Head(ns.wq).x} :
               \E port \in {Head(ns.wq).a} :
               \E free \in {{s \in DOMAIN ns.sock : ns.sock[s].st = "free"}} :
                  IF ok /\ free # {} /\ kernel_bind(ns, port)
                  THEN \E s \in free :
                          ns' = [ns EXCEPT !.wq = Tail(@),
                                           !.sock[s] = [st |-> "bound", port |-> port,
                                                        refcnt |-> 1, del |-> 0],
                                           !.work = [pc |-> "add", d |-> d, s |-> s]]
                  ELSE ns' = [ns EXCEPT !.wq = Tail(@),
                                        !.work = [pc |-> "find", d |-> d, s |-> port]]
       ELSE IF ns.work.pc = "add"
       THEN ns' = [ns EXCEPT !.sock[ns.work.s].st = "listed", !.work.pc = "attach"]
       ELSE IF ns.work.pc = "find"
       THEN \E vs \in {VsFindSock(ns, ns.work.s)} :
               ns' = IF vs = 0 THEN [ns EXCEPT !.work = [pc |-> "attach", d |-> ns.work.d, s |-> 0]]
                     ELSE [ns EXCEPT !.sock[vs].refcnt = @ + 1,
                                     !.work = [pc |-> "attach", d |-> ns.work.d, s |-> vs]]
       ELSE /\ ns.work.pc = "attach"
            /\ ns' = [ns EXCEPT !.dev[ns.work.d].vn_sock =
                                    IF ns.work.s # 0 THEN ns.work.s ELSE @,
                                !.work = [pc |-> "idle", d |-> 0, s |-> 0]]
    /\ NsOnly

\* vxlan_igmp_join() and vxlan_igmp_leave() of a device, up to the first half
\* of their vxlan_sock_release, the atomic_dec_and_test
vxlan_igmp ==
    /\ ~ns.oops
    /\ ns.work.pc = "idle"
    /\ ns.wq # <<>>
    /\ Head(ns.wq).fn \in {"igmp_join", "igmp_leave"}
    /\ \E vs \in {Head(ns.wq).a} :
          ns' = IF ns.sock[vs].st = "free"
                THEN [ns EXCEPT !.oops = TRUE]
                ELSE [ns EXCEPT !.wq = Tail(@),
                                !.sock[vs].refcnt = @ - 1,
                                !.work = IF ns.sock[vs].refcnt = 1
                                         THEN [pc |-> "unlink", d |-> 0, s |-> vs]
                                         ELSE @]
    /\ NsOnly

\* The second half of vxlan_sock_release() in thread t, after its
\* atomic_dec_and_test has seen zero: hlist_del_rcu under sock_lock, then
\* queue_work of del_work.  hlist_del_rcu of a socket that is not on the list
\* writes through the poisoned pprev.
vxlan_sock_release(t) ==
    /\ ~ns.oops
    /\ ns[t].pc = "unlink"
    /\ \E vs \in {ns[t].s} :
          ns' = IF ns.sock[vs].st # "listed"
                THEN [ns EXCEPT !.oops = TRUE]
                ELSE [ns EXCEPT !.sock[vs].st = "unlisted",
                                !.sock[vs].del = @ + 1,
                                !.wq = queue_work(@, "del_work", vs, 0),
                                ![t] = [pc |-> "idle", d |-> 0, s |-> 0]]
    /\ NsOnly

\* vxlan_del_work(): sk_release_kernel gives the port back, kfree_rcu the memory
vxlan_del_work ==
    /\ ~ns.oops
    /\ ns.work.pc = "idle"
    /\ ns.wq # <<>>
    /\ Head(ns.wq).fn = "del_work"
    /\ ns' = [ns EXCEPT !.wq = Tail(@),
                        !.sock[Head(ns.wq).x] = NsIdle.sock[Head(ns.wq).x]]
    /\ NsOnly

NextSock ==
    \/ \E d \in DOMAIN ns.dev, port \in NetPorts, ip \in {IpA, <<239, 1, 1, 1>>} :
          VsNewlink(d, port, ip)
    \/ \E d \in DOMAIN ns.dev : VsOpen(d)
    \/ \E d \in DOMAIN ns.dev, unreg \in BOOLEAN : VsDown(d, unreg)
    \/ \E ok \in BOOLEAN : VsSockWork(ok)
    \/ vxlan_igmp
    \/ \E t \in {"rtnl", "work"} : vxlan_sock_release(t)
    \/ vxlan_del_work

SpecSock == Init /\ [][NextSock]_vars


\* The namespace when memory is never short: vxlan_socket_create fails on
\* the port only.  vxlan_wq runs the work at the head of its queue and goes on
\* with the work it is in, and a thread inside vxlan_sock_release goes on to
\* its second half.
NextSockFair ==
    \/ \E d \in DOMAIN ns.dev, port \in NetPorts, ip \in {IpA, <<239, 1, 1, 1>>} :
          VsNewlink(d, port, ip)
    \/ \E d \in DOMAIN ns.dev : VsOpen(d)
    \/ \E d \in DOMAIN ns.dev, unreg \in BOOLEAN : VsDown(d, unreg)
    \/ VsSockWork(TRUE)
    \/ vxlan_igmp
    \/ \E t \in {"rtnl", "work"} : vxlan_sock_release(t)
    \/ vxlan_del_work

SpecSockFair ==
    /\ Init
    /\ [][NextSockFair]_vars
    /\ WF_vars(VsSockWork(TRUE))
    /\ WF_vars(vxlan_igmp)
    /\ WF_vars(vxlan_del_work)
    /\ \A t \in {"rtnl", "work"} : WF_vars(vxlan_sock_release(t))


---------------------------------------------------------------------------
(* One learned entry, hash_lock and its readers and writers, one step per  *)
(* load, store and lock operation                                          *)

LkOnly ==
    UNCHANGED <<dev_state, cfg, fdb_head, addrcnt, jiffies, age_timer, vn_sock, out, rcu, udp,
                vn, ns>>

\* the destinations RTM_NEWNEIGH requests with NLM_F_REPLACE name
LkReqs == {Rdst(IpA, vxlan_port, 10, 0), Rdst(IpB, vxlan_port + 1, 11, 1)}

\* the memory of a destination that neither the chain nor a reader holds
LkFree == {o \in DOMAIN lk.rd : lk.cur # o /\ \A t \in DOMAIN lk.p : lk.p[t] # o}

\* vxlan_fdb_free() after the grace period: the memory of a destination that
\* neither the chain nor a reader holds is given back; the request and the
\* packet of a thread that has returned are gone
LkReclaim(l) ==
    [l EXCEPT !.rd = [o \in DOMAIN l.rd |->
                         IF l.cur # o /\ \A t \in DOMAIN l.p : l.p[t] # o
                         THEN LkIdle.rd[o] ELSE l.rd[o]],
              !.req = IF l.pc["rtnl"] = "idle" THEN LkIdle.req ELSE @,
              !.src_ip = IF l.pc["rx"] = "idle" THEN LkIdle.src_ip ELSE @]

\* spin_lock(&vxlan->hash_lock) by thread t
spin_lock(l, t) == [l EXCEPT !.hash_lock = t]

\* vxlan_newlink(): the all-zero entry of a default destination is created
\* with no lock taken, then the device is registered
LkNewlink ==
    /\ lk.pc["rtnl"] = "new"
    /\ \E l \in { [lk EXCEPT !.zero = cfg.default_ip # INADDR_ANY, !.pc["rtnl"] = "idle"] } :
          lk' = LkReclaim(l)
    /\ LkOnly

\* dev_open(): __LINK_STATE_START is set
LkOpen ==
    /\ lk.pc["rtnl"] = "idle"
    /\ ~lk.running
    /\ \E l \in { [lk EXCEPT !.running = TRUE] } :
          lk' = LkReclaim(l)
    /\ LkOnly

\* dev_close(): __LINK_STATE_START is cleared, then vxlan_stop is called
LkClose ==
    /\ lk.pc["rtnl"] = "idle"
    /\ lk.running
    /\ \E l \in { [lk EXCEPT !.running = FALSE, !.pc["rtnl"] = "stop"] } :
          lk' = LkReclaim(l)
    /\ LkOnly

\* vxlan_flush() in vxlan_stop: spin_lock_bh, vxlan_fdb_destroy of every entry
\* but the all-zero one, spin_unlock_bh
LkFlush ==
    /\ lk.pc["rtnl"] \in {"stop", "flush", "flushed"}
    /\ lk.pc["rtnl"] = "stop" => lk.hash_lock = "free"
    /\ \E l \in { IF lk.pc["rtnl"] = "stop"
             THEN [spin_lock(lk, "rtnl") EXCEPT !.pc["rtnl"] = "flush"]
             ELSE IF lk.pc["rtnl"] = "flush"
             THEN [lk EXCEPT !.cur = 0, !.pc["rtnl"] = "flushed"]
             ELSE [lk EXCEPT !.hash_lock = "free", !.pc["rtnl"] = "idle"] } :
          lk' = LkReclaim(l)
    /\ LkOnly

\* vxlan_fdb_add() with NLM_F_REPLACE for the address of the entry:
\* spin_lock_bh, vxlan_fdb_create, which returns -ENOENT without an entry and
\* else calls vxlan_fdb_replace, one step per store; spin_unlock_bh
LkReplace(q) ==
    /\ lk.pc["rtnl"] \in {"idle", "add", "w_ip", "w_port", "w_vni", "w_ifindex", "added"}
    /\ lk.pc["rtnl"] = "idle" => lk.hash_lock = "free"
    /\ lk.pc["rtnl"] # "idle" => q = lk.req
    /\ \E l \in { IF lk.pc["rtnl"] = "idle"
             THEN [spin_lock(lk, "rtnl") EXCEPT !.req = q, !.pc["rtnl"] = "add"]
             ELSE IF lk.pc["rtnl"] = "add"
             THEN [lk EXCEPT !.pc["rtnl"] = IF lk.cur = 0 \/ lk.rd[lk.cur] = q
                                            THEN "added" ELSE "w_ip"]
             ELSE IF lk.pc["rtnl"] = "w_ip"
             THEN [lk EXCEPT !.rd[lk.cur].remote_ip = q.remote_ip, !.pc["rtnl"] = "w_port"]
             ELSE IF lk.pc["rtnl"] = "w_port"
             THEN [lk EXCEPT !.rd[lk.cur].remote_port = q.remote_port, !.pc["rtnl"] = "w_vni"]
             ELSE IF lk.pc["rtnl"] = "w_vni"
             THEN [lk EXCEPT !.rd[lk.cur].remote_vni = q.remote_vni,
                             !.pc["rtnl"] = "w_ifindex"]
             ELSE IF lk.pc["rtnl"] = "w_ifindex"
             THEN [lk EXCEPT !.rd[lk.cur].remote_ifindex = q.remote_ifindex,
                             !.pc["rtnl"] = "added"]
             ELSE [lk EXCEPT !.hash_lock = "free", !.pc["rtnl"] = "idle"] } :
          lk' = LkReclaim(l)
    /\ LkOnly

\* vxlan_snoop() whose vxlan_fdb_create does not depend on netif_running
LkSnoop_any(src_ip) ==
    /\ lk.pc["rtnl"] # "new"
    /\ "LEARN" \in cfg.flags
    /\ lk.pc["rx"] = "idle" \/ src_ip = lk.src_ip
    /\ lk.pc["rx"] = "unknown" => lk.hash_lock = "free"
    /\ \E l \in { IF lk.pc["rx"] = "idle"
             THEN [lk EXCEPT !.src_ip = src_ip, !.p["rx"] = lk.cur,
                             !.pc["rx"] = IF lk.cur = 0 THEN "unknown" ELSE "known"]
             ELSE IF lk.pc["rx"] = "known"
             THEN IF lk.rd[lk.p["rx"]].remote_ip = src_ip
                  THEN [lk EXCEPT !.p["rx"] = 0, !.pc["rx"] = "idle"]
                  ELSE [lk EXCEPT !.pc["rx"] = "migrate"]
             ELSE IF lk.pc["rx"] = "migrate"
             THEN [lk EXCEPT !.rd[lk.p["rx"]].remote_ip = src_ip,
                             !.p["rx"] = 0, !.pc["rx"] = "idle"]
             ELSE IF lk.pc["rx"] = "unknown"
             THEN [spin_lock(lk, "rx") EXCEPT !.pc["rx"] = "locked"]
             ELSE IF lk.pc["rx"] = "locked"
             THEN IF lk.cur = 0 /\ LkFree # {}
                  THEN [lk EXCEPT !.cur = CHOOSE o \in LkFree : TRUE,
                                  !.rd[CHOOSE o \in LkFree : TRUE] =
                                      Rdst(src_ip, cfg.dst_port, cfg.vni, 0),
                                  !.pc["rx"] = "unlock"]
                  ELSE [lk EXCEPT !.pc["rx"] = "unlock"]
             ELSE [lk EXCEPT !.hash_lock = "free", !.pc["rx"] = "idle"] } :
          lk' = LkReclaim(l)
    /\ LkOnly

\* vxlan_snoop() of a packet from src_ip with the address of the entry as its
\* inner source.  Known entry: first_remote_rcu, the comparison, and the store
\* of the migration.  No entry: spin_lock, the test of netif_running,
\* vxlan_fdb_create (which looks the address up again), spin_unlock.
LkSnoop(src_ip) ==
    /\ lk.pc["rtnl"] # "new"
    /\ "LEARN" \in cfg.flags
    /\ lk.pc["rx"] = "idle" \/ src_ip = lk.src_ip
    /\ lk.pc["rx"] = "unknown" => lk.hash_lock = "free"
    /\ \E l \in { IF lk.pc["rx"] = "idle"
             THEN [lk EXCEPT !.src_ip = src_ip, !.p["rx"] = lk.cur,
                             !.pc["rx"] = IF lk.cur = 0 THEN "unknown" ELSE "known"]
             ELSE IF lk.pc["rx"] = "known"
             THEN IF lk.rd[lk.p["rx"]].remote_ip = src_ip
                  THEN [lk EXCEPT !.p["rx"] = 0, !.pc["rx"] = "idle"]
                  ELSE [lk EXCEPT !.pc["rx"] = "migrate"]
             ELSE IF lk.pc["rx"] = "migrate"
             THEN [lk EXCEPT !.rd[lk.p["rx"]].remote_ip = src_ip,
                             !.p["rx"] = 0, !.pc["rx"] = "idle"]
             ELSE IF lk.pc["rx"] = "unknown"
             THEN [spin_lock(lk, "rx") EXCEPT !.pc["rx"] = "locked"]
             ELSE IF lk.pc["rx"] = "locked"
             THEN IF lk.running /\ lk.cur = 0 /\ LkFree # {}
                  THEN [lk EXCEPT !.cur = CHOOSE o \in LkFree : TRUE,
                                  !.rd[CHOOSE o \in LkFree : TRUE] =
                                      Rdst(src_ip, cfg.dst_port, cfg.vni, 0),
                                  !.pc["rx"] = "unlock"]
                  ELSE [lk EXCEPT !.pc["rx"] = "unlock"]
             ELSE [lk EXCEPT !.hash_lock = "free", !.pc["rx"] = "idle"] } :
          lk' = LkReclaim(l)
    /\ LkOnly

\* vxlan_xmit() of a frame for the address of the entry on a running device:
\* the lookup, then the loads of vxlan_xmit_one in their order: remote_port,
\* remote_vni, remote_ip, remote_ifindex; then the frame is sent
LkXmit ==
    /\ lk.pc["rtnl"] # "new"
    /\ lk.pc["tx"] = "idle" => lk.running /\ lk.cur # 0
    /\ \E l \in { IF lk.pc["tx"] = "idle"
             THEN [lk EXCEPT !.p["tx"] = lk.cur, !.pc["tx"] = "r_port"]
             ELSE IF lk.pc["tx"] = "r_port"
             THEN [lk EXCEPT !.loc.remote_port = lk.rd[lk.p["tx"]].remote_port,
                             !.pc["tx"] = "r_vni"]
             ELSE IF lk.pc["tx"] = "r_vni"
             THEN [lk EXCEPT !.loc.remote_vni = lk.rd[lk.p["tx"]].remote_vni,
                             !.pc["tx"] = "r_ip"]
             ELSE IF lk.pc["tx"] = "r_ip"
             THEN [lk EXCEPT !.loc.remote_ip = lk.rd[lk.p["tx"]].remote_ip,
                             !.pc["tx"] = "r_ifindex"]
             ELSE IF lk.pc["tx"] = "r_ifindex"
             THEN [lk EXCEPT !.loc.remote_ifindex = lk.rd[lk.p["tx"]].remote_ifindex,
                             !.pc["tx"] = "sent"]
             ELSE [lk EXCEPT !.p["tx"] = 0, !.loc = LkIdle.loc, !.pc["tx"] = "idle"] } :
          lk' = LkReclaim(l)
    /\ LkOnly

NextLock ==
    \/ LkNewlink
    \/ LkOpen
    \/ LkClose
    \/ LkFlush
    \/ \E q \in LkReqs : LkReplace(q)
    \/ \E src_ip \in IPS : LkSnoop(src_ip)
    \/ LkXmit

SpecLock == Init /\ [][NextLock]_vars

---------------------------------------------------------------------------
(* Claims about the sockets of a namespace *)

\* the sockets that exist for a port: bound to it, on vn->sock_list or not
SocksOf(n, port) == {s \in DOMAIN n.sock : n.sock[s].st # "free" /\ n.sock[s].port = port}

\* the step registers device d
Registers(d) == ~ns.dev[d].reg /\ ns'.dev[d].reg

\* C21: in every reachable state a port has at most one socket, on
\* vn->sock_list or not, however vxlan_init, the steps of vxlan_sock_work and
\* the two halves of vxlan_sock_release interleave; a device that is
\* registered, and a vxlan_sock_work that looks up, while the socket of the
\* port is on the list take a reference on that socket (refcnt one more) and
\* the device is attached to it, and no socket is created.
C21_OneListener ==
    /\ [](\A port \in NetPorts : Cardinality(SocksOf(ns, port)) <= 1)
    /\ [][ \A d \in DOMAIN ns.dev :
             /\ (Registers(d) /\ VsFindSock(ns, ns'.dev[d].dst_port) # 0) =>
                   \E vs \in {VsFindSock(ns, ns'.dev[d].dst_port)} :
                      /\ ns'.dev[d].vn_sock = vs
                      /\ ns'.sock = [ns.sock EXCEPT ![vs].refcnt = @ + 1]
                      /\ ns'.wq = ns.wq
             /\ (ns.work.pc = "find" /\ ns.work.d = d /\ ns'.work # ns.work
                 /\ VsFindSock(ns, ns.work.s) # 0) =>
                   \E vs \in {VsFindSock(ns, ns.work.s)} :
                      /\ ns'.work = [pc |-> "attach", d |-> d, s |-> vs]
                      /\ ns'.sock = [ns.sock EXCEPT ![vs].refcnt = @ + 1]
             /\ (ns.work.pc = "attach" /\ ns.work.d = d /\ ns.work.s # 0
                 /\ ns'.work # ns.work) =>
                   ns'.dev[d].vn_sock = ns.work.s ]_vars

\* two devices share the socket of a port: the second came while it was listed
C21_Witness ==
    \E s \in DOMAIN ns.sock :
       /\ ns.sock[s].st = "listed"
       /\ ns.sock[s].refcnt = 2
       /\ \A d \in DOMAIN ns.dev : ns.dev[d].reg /\ ns.dev[d].vn_sock = s
       /\ ns.wq = <<>>
       /\ ns.work.pc = "idle"


\* the step queues the del_work of socket s
QueuesDelWork(s) == ns'.sock[s].del = ns.sock[s].del + 1

\* C22: the del_work of a socket is queued when its refcnt has dropped to
\* zero and not while it holds a reference: at the step that queues it the
\* refcnt is zero, a listed socket whose refcnt is zero has a thread between
\* the two halves of vxlan_sock_release for it, and no socket has its del_work
\* queued a second time.
C22_QueuedOnceAtZero ==
    /\ [](\A s \in DOMAIN ns.sock :
            /\ ns.sock[s].del <= 1
            /\ (ns.sock[s].st = "listed" /\ ns.sock[s].refcnt = 0) =>
                  \E t \in {"rtnl", "work"} : ns[t].pc = "unlink" /\ ns[t].s = s)
    /\ [][ \A s \in DOMAIN ns.sock : QueuesDelWork(s) => ns.sock[s].refcnt = 0 ]_vars


\* a running device other than d has the default remote of d
UsedByOther(d) ==
    \E e \in DOMAIN ns.dev \ {d} :
       ns.dev[e].reg /\ ns.dev[e].up /\ ns.dev[e].ip = ns.dev[d].ip

\* vxlan_open / vxlan_stop of device d ran in the step
Opens(d) == ~ns.dev[d].up /\ ns'.dev[d].up
Stops(d) == ns.dev[d].up /\ ~ns'.dev[d].up

\* The step took the reference of a work fn of device d on its socket and
\* called queue_work for it: the work is pending afterwards.  A vxlan_dellink
\* gives the reference of the device back in the same step.
Scheduled(fn, d) ==
    /\ ns.dev[d].vn_sock # 0
    /\ \E i \in 1..Len(ns'.wq) : ns'.wq[i].fn = fn /\ ns'.wq[i].x = d
    /\ ns'.sock[ns.dev[d].vn_sock].refcnt =
          ns.sock[ns.dev[d].vn_sock].refcnt + (IF ns'.dev[d].reg THEN 1 ELSE 0)

\* C23: vxlan_open of a device schedules igmp_join exactly when its default
\* remote is multicast and no other running device of the namespace has the
\* same default remote; vxlan_stop schedules igmp_leave exactly when the
\* default remote is multicast and no other running device has it; a device
\* whose default remote is not multicast schedules neither.
C23_JoinLeaveOnce ==
    [][ \A d \in DOMAIN ns.dev :
          /\ Opens(d) =>
                (Scheduled("igmp_join", d) <=>
                    (IN_MULTICAST(ns.dev[d].ip) /\ ~UsedByOther(d)))
          /\ Stops(d) =>
                (Scheduled("igmp_leave", d) <=>
                    (IN_MULTICAST(ns.dev[d].ip) /\ ~UsedByOther(d)))
          /\ (Opens(d) \/ Stops(d)) /\ ~IN_MULTICAST(ns.dev[d].ip) =>
                ns'.wq = ns.wq ]_vars


---------------------------------------------------------------------------
(* Claims about shutdown and destruction *)

\* C24: after close (UP -> READY) completes, the ageing timer is not pending
\* and does not fire again until the next open, and the FDB contains no entry
\* other than the all-zero-MAC default entry, which is preserved unchanged if
\* it existed before the close.
C24_CloseFlushes ==
    /\ [](dev_state = "DOWN" => ~age_timer.pending)
    /\ [][ /\ out'.op = "stop" =>
                /\ dev_state = "UP" /\ dev_state' = "DOWN"
                /\ ~age_timer'.pending
                /\ AllFdb(fdb_head') = FdbOf(fdb_head, all_zeros_mac)
                /\ addrcnt' = Cardinality(FdbOf(fdb_head, all_zeros_mac))
           /\ out'.op = "cleanup" => dev_state = "UP" ]_vars

\* a close has stopped a pending timer, flushed an entry and kept the default one
C24_Witness ==
    /\ out.op = "stop"
    /\ dev_state = "DOWN"
    /\ age_timer.expires > 0
    /\ Len(out.nl) >= 1
    /\ FdbOf(fdb_head, all_zeros_mac) # {}
    /\ addrcnt = 1


\* C25: after an endpoint is destroyed, its FDB holds no entries: every entry
\* including the default has been deleted (addrcnt = 0), whatever sequence of
\* admin adds, learning, open and close preceded the destroy, including admin
\* adds made while the endpoint was DOWN.
C25_DestroyEmpties ==
    dev_state = "DEAD" => (AllFdb(fdb_head) = {} /\ addrcnt = 0)


---------------------------------------------------------------------------
(* Claims about the transmit path *)

\* a transmit whose every copy was made and went to a destination without address
ToZeroOnly(o) ==
    /\ o.op = "xmit"
    /\ o.tx # <<>>
    /\ Len(o.tx) = Len(o.arg.envs)
    /\ \A i \in 1..Len(o.tx) : o.tx[i].remote_ip = INADDR_ANY

\* C26: in xmit_one, every frame sent to a destination whose remote IP is zero
\* is delivered up through the same endpoint without encapsulation (local
\* bridge short-circuit), with that endpoint's tx and rx counters updated; it
\* is never dropped for that reason.
C26_ZeroAlwaysUp ==
    ToZeroOnly(out) =>
        /\ out.up = Len(out.tx)
        /\ out.cnt["tx_packets"] = Len(out.tx)
        /\ out.cnt["rx_packets"] = Len(out.tx)
        /\ out.cnt["tx_dropped"] = 0

\* C26, amended: a frame sent to a destination whose remote IP is zero is
\* delivered up through the same endpoint only when route short-circuit
\* rewrote it: tx_packets counts it, and rx_packets when netif_rx takes it,
\* rx_dropped when it does not.  A frame that was not short-circuited is
\* dropped and counted in tx_dropped.
C26_ZeroUpIfRsc ==
    ToZeroOnly(out) =>
        IF out.arg.did_rsc
        THEN /\ out.cnt["tx_packets"] = Len(out.tx)
             /\ out.cnt["tx_dropped"] = 0
             /\ out.up = Cardinality({i \in 1..Len(out.tx) : out.arg.envs[i].rx_ok})
             /\ out.cnt["rx_packets"] = out.up
             /\ out.cnt["rx_dropped"] = Len(out.tx) - out.up
        ELSE /\ out.up = 0
             /\ out.cnt = [NoCount EXCEPT !["tx_dropped"] = Len(out.tx)]

\* a short-circuited frame has gone up through the endpoint
C26_Witness ==
    /\ ToZeroOnly(out)
    /\ out.arg.did_rsc
    /\ out.arg.dst_mac = MacU2
    /\ out.up = 1
    /\ out.cnt["rx_packets"] = 1


\* a transmit whose every copy was made and met a local unicast route
ToLocalOnly(o) ==
    /\ o.op = "xmit"
    /\ o.tx # <<>>
    /\ Len(o.tx) = Len(o.arg.envs)
    /\ \A i \in 1..Len(o.tx) :
          o.tx[i].remote_ip # INADDR_ANY /\ o.arg.envs[i].route = "local"

\* the copies of a transmit whose destination has an endpoint registered in the
\* namespace for its VNI and port, and those of them netif_rx accepted
ToEndpoint(o) ==
    { i \in 1..Len(o.tx) :
         vxlan_find_vni(vn_sock.attached, cfg, o.tx[i].remote_vni,
                        IF o.tx[i].remote_port # 0 THEN o.tx[i].remote_port
                        ELSE cfg.dst_port) }

Accepted(o) == {i \in ToEndpoint(o) : o.arg.envs[i].rx_ok}

---------------------------------------------------------------------------
(* Claims about the receive path's ECN handling *)

\* a received packet that came as far as the ECN step of vxlan_rcv
Decapsulated(o) == o.op = "rcv" /\ o.ecn # <<>>

---------------------------------------------------------------------------
(* Claims about the validation of a creation request *)

\* C29: the creation of an endpoint is refused with ERANGE exactly when its ID
\* attribute is 2^24 or more: every ID of 0..2^24-1 passes the validation.
C29_RangeIffTooBig ==
    vn.ret.op = "newlink" => (vn.ret.err = -ERANGE <=> vn.ret.vni >= VXLAN_N_VID)


---------------------------------------------------------------------------
(* The source port of the outer UDP header *)

ETH_ALEN == 6

htons(x) == <<x \div 256, x % 256>>
ntohs(o) == o[1] * 256 + o[2]

\* a * b for two 16-bit limbs, as the two limbs of the product
MulLimb(a, b) ==
    LET p0 == a * (b % 256)
        p1 == a * (b \div 256)
        s == p0 + (p1 % 256) * 256
    IN  <<s % Limb, p1 \div 256 + s \div Limb>>

\* (u64) x * y for two u32
MulU32(x, y) ==
    LET p00 == MulLimb(x[1], y[1])
        p01 == MulLimb(x[1], y[2])
        p10 == MulLimb(x[2], y[1])
        p11 == MulLimb(x[2], y[2])
    IN  AddU64(AddU64(<<p00[1], p00[2], 0, 0>>, <<0, p01[1], p01[2], 0>>),
               AddU64(<<0, p10[1], p10[2], 0>>, <<0, 0, p11[1], p11[2]>>))

\* a hash of the first length bytes of key, seeded with initval: every byte
\* is added to the hash, which is then multiplied by 16777619 modulo 2^32
RECURSIVE jhash(_, _, _)
jhash(key, length, initval) ==
    IF length = 0
    THEN U32(initval)
    ELSE With(jhash(key, length - 1, initval), LAMBDA h :
             With(MulU32(<<(h[1] + key[length]) % Limb,
                           (h[2] + (h[1] + key[length]) \div Limb) % Limb>>,
                         <<403, 256>>),
                  LAMBDA p : <<p[1], p[2]>>))

\* unsigned int range = (port_max - port_min) + 1
src_port_range(port_min, port_max) ==
    IF port_max - port_min + 1 >= 0
    THEN U32(port_max - port_min + 1)
    ELSE <<Limb + (port_max - port_min + 1), Limb - 1>>

\* htons((((u64) hash * range) >> 32) + port_min): bits 32..47 of the product,
\* the sum cut to the 16 bits of the port
src_port_of_wide(port_min, port_max, hash) ==
    htons((MulU32(hash, src_port_range(port_min, port_max))[2] + port_min) % Limb)

src_port_of(port_min, port_max, hash) ==
    htons((MulU32(hash, src_port_range(port_min, port_max))[3] + port_min) % Limb)

\* vxlan_src_port().  skb.data begins with the inner Ethernet header.
vxlan_src_port(port_min, port_max, skb) ==
    src_port_of(port_min, port_max, jhash(skb.data, 2 * ETH_ALEN, skb.protocol))

\* the port ranges an endpoint can have: vxlan_validate refuses high < low
SrcRanges ==
    { PortRange(32768, 61000), PortRange(0, 65535), PortRange(0, 0), PortRange(65535, 65535),
      PortRange(5000, 5000), PortRange(1024, 1025), PortRange(1, 65535) }

\* values at both ends of the u32 range and in between
SrcHashes ==
    { <<0, 0>>, <<1, 0>>, <<Limb - 1, 0>>, <<0, 1>>, <<0, 32768>>, <<Limb - 1, 32767>>,
      <<0, Limb - 1>>, <<Limb - 2, Limb - 1>>, <<Limb - 1, Limb - 1>> }

\* inner frames: destination, source, the first byte after the two addresses,
\* and skb->protocol
SrcFrames ==
    { [data |-> d \o s \o <<b>>, protocol |-> pr] :
         d \in {MacU1, MacM1}, s \in {MacU2, dev_addr}, b \in {0, 255}, pr \in {8, 1544} }

PortOnly ==
    UNCHANGED <<dev_state, cfg, fdb_head, addrcnt, jiffies, age_timer, vn_sock, rcu, udp, vn, ns, lk>>

\* the scaling of vxlan_src_port for a hash value
PortOfHash(r, hash) ==
    /\ out' = Ret("src_port_of", [range |-> r, hash |-> hash],
                  src_port_of(r.low, r.high, hash), <<>>)
    /\ PortOnly

\* vxlan_src_port() for a frame of an endpoint with port range r
PortOfFrame(r, skb) ==
    /\ out' = Ret("vxlan_src_port", [range |-> r, skb |-> skb],
                  vxlan_src_port(r.low, r.high, skb), <<>>)
    /\ PortOnly

NextPort ==
    \/ \E r \in SrcRanges, hash \in SrcHashes : PortOfHash(r, hash)
    \/ \E r \in SrcRanges, skb \in SrcFrames : PortOfFrame(r, skb)

SpecPort == Init /\ [][NextPort]_vars

\* the key of the hash: both addresses of the inner frame and its protocol
FlowOf(skb) == <<SubSeq(skb.data, 1, 2 * ETH_ALEN), skb.protocol>>

---------------------------------------------------------------------------
(* Claims about the counters of dropped packets *)

\* C31: a received packet that vxlan_snoop drops, because it would move the
\* static entry of its source to another remote IP, adds exactly one to
\* rx_dropped.
C31_StaticDropCounted ==
    [][ (out'.op = "rcv" /\ Snooped(out'.arg) /\ StaticElsewhere(fdb_head, out'.arg) # {}) =>
           out'.cnt["rx_dropped"] = 1 ]_vars


---------------------------------------------------------------------------
(* Claims about the VNI table of a socket *)

\* C32: the VNI table of a socket never holds a device that has been
\* destroyed: vxlan_dellink takes the device off the table before
\* vxlan_uninit releases the socket, and vxlan_sock_work does not put a
\* device on a table after its vxlan_dellink.
C32_NoDestroyedInVniTable ==
    \A d \in DOMAIN ns.dev : ns.dev[d].vn_sock # 0 => ns.dev[d].reg


---------------------------------------------------------------------------
(* Claims about the locking of the FDB *)

\* a step that installs the all-zero entry, puts the entry into its chain or
\* takes it out, or stores to the destination of the entry in the chain
LkWritten ==
    \/ lk'.zero # lk.zero
    \/ lk'.cur # lk.cur
    \/ lk.cur # 0 /\ lk'.rd[lk.cur] # lk.rd[lk.cur]

\* C33: every store to the destinations of an entry and every insertion into
\* and removal from the hash chains is made by a thread that holds hash_lock:
\* admin add, learning create, learning migration, flush and the installation
\* of the default entry.
C33_WritesUnderLock ==
    [][ LkWritten => \E t \in DOMAIN lk.pc : lk'.pc[t] # lk.pc[t] /\ lk.hash_lock = t ]_vars

\* C33, for the stores made once the device is registered only
C33_WritesUnderLockRegistered ==
    [][ (LkWritten /\ lk.pc["rtnl"] # "new") =>
           \E t \in DOMAIN lk.pc : lk'.pc[t] # lk.pc[t] /\ lk.hash_lock = t ]_vars


---------------------------------------------------------------------------
(* Claims about the references of the workers *)

\* the devices attached to socket s
AttachedTo(n, s) == {d \in DOMAIN n.dev : n.dev[d].vn_sock = s}

\* no work is pending or running and no release is half done
Drained(n) ==
    /\ ~n.oops
    /\ n.wq = <<>>
    /\ n.work.pc = "idle"
    /\ n.rtnl.pc = "idle"

\* The references on sockets that the step took, and the works it queued
RefsTaken == LET S == DOMAIN ns.sock
                 RECURSIVE Sum(_)
                 Sum(T) == IF T = {} THEN 0
                           ELSE LET s == CHOOSE s \in T : TRUE
                                IN  ns'.sock[s].refcnt - ns.sock[s].refcnt + Sum(T \ {s})
             IN  Sum(S)
WorksQueued == Len(ns'.wq) - Len(ns.wq)

\* C34: every reference vxlan_open and vxlan_stop take for an igmp_join or
\* igmp_leave work is released exactly once by a run of that work, also when
\* the work was pending already: a vxlan_open or vxlan_stop takes as many
\* references on sockets as it queues works.
C34_RefPerQueuedWork ==
    [][ \A d \in DOMAIN ns.dev :
           (Opens(d) \/ (Stops(d) /\ ns'.dev[d].reg)) => RefsTaken = WorksQueued ]_vars

\* The consequence C34 draws: once the works have drained, the refcnt of a
\* socket on the list is the number of devices attached to it.
RefsDrained ==
    Drained(ns) =>
       \A s \in DOMAIN ns.sock :
          ns.sock[s].st = "listed" => ns.sock[s].refcnt = Cardinality(AttachedTo(ns, s))


\* C35: the refcnt of a socket that exists never goes from zero back to a
\* positive value: a lookup in vxlan_init or vxlan_sock_add never takes a
\* reference on a socket whose last reference vxlan_sock_release has dropped.
C35_NoResurrection ==
    [][ \A s \in DOMAIN ns.sock :
           (ns.sock[s].st # "free" /\ ns.sock[s].refcnt = 0) => ns'.sock[s].refcnt = 0 ]_vars


---------------------------------------------------------------------------
(* Claims about a transmit concurrent with a rewrite *)

\* The destinations an entry holds between rewrites: the one an RTM_NEWNEIGH
\* asked for or the one vxlan_snoop learned, each with the remote_ip a
\* migration of vxlan_snoop may have stored since
LkWhole ==
    LET base == LkReqs \cup {Rdst(ip, cfg.dst_port, cfg.vni, 0) : ip \in IPS}
    IN  {[q EXCEPT !.remote_ip = ip] : q \in base, ip \in IPS}

\* C36: a vxlan_xmit_one that runs while vxlan_fdb_replace or the migration
\* of vxlan_snoop rewrites its destination in place encapsulates with the
\* whole (remote_ip, remote_port, remote_vni, remote_ifindex) from before
\* or from after a rewrite, never with fields of both.
C36_WholeTuple == lk.pc["tx"] = "sent" => lk.loc \in LkWhole


---------------------------------------------------------------------------
(* Claims about learning on a device that is closed *)

\* C37: vxlan_snoop creates no entry while the device is not running: the
\* step that creates the learned entry is taken on a running device, and
\* from the end of the vxlan_flush of a close until the next open the FDB
\* holds no learned entry, however the reception interleaves with the close.
C37_NoLearnWhenDown ==
    /\ []((~lk.running /\ lk.pc["rtnl"] \notin {"stop", "flush"}) => lk.cur = 0)
    /\ [][ (lk.cur = 0 /\ lk'.cur # 0) => lk.running ]_vars

\* A close has flushed the learned entry, which a transmit that began before
\* still reads; vxlan_snoop took hash_lock after the flush, found the device
\* not running and created nothing
C37_Witness ==
    /\ lk.pc["rx"] = "unlock"
    /\ ~lk.running
    /\ lk.pc["rtnl"] = "idle"
    /\ lk.cur = 0
    /\ lk.p["tx"] # 0
    /\ LkFree # {}


---------------------------------------------------------------------------
(* Claims about a vxlan_fdb_create that fails *)

\* C38: whenever the vxlan_fdb_create of an RTM_NEWNEIGH returns an error
\* (EEXIST, ENOENT, ENOSPC, EOPNOTSUPP, ENOMEM or ENOBUFS), the FDB is as it
\* was before the call (the same entries, each with the same state, flags,
\* updated and destinations) and nothing is notified.
C38_ErrorLeavesFdb ==
    [][ (out'.op = "fdb_add" /\ Parsed(out'.arg) /\ out'.err # 0) =>
           /\ fdb_head' = fdb_head
           /\ addrcnt' = addrcnt
           /\ out'.nl = <<>> ]_vars


---------------------------------------------------------------------------
(* Claims about the VNI of a stored destination *)

\* C39: every destination in the FDB, whether from an RTM_NEWNEIGH with or
\* without NDA_VNI, from vxlan_snoop or from vxlan_newlink, has a remote_vni
\* below 2^24, so that the word vxlan_xmit_one writes, htonl(remote_vni << 8)
\* on 32 bits, gives the stored remote_vni back at the receiver.
C39_StoredVniFits ==
    \A f \in AllFdb(fdb_head) :
       \A i \in 1..Len(f.remotes) :
          /\ f.remotes[i].remote_vni < VXLAN_N_VID
          /\ RcvVni(XmitVni(f.remotes[i].remote_vni)) = U32(f.remotes[i].remote_vni)


---------------------------------------------------------------------------
(* Claims about the way of a device to its socket *)

\* the igmp_join of device d is pending
JoinPending(n, d) == \E i \in 1..Len(n.wq) : n.wq[i].fn = "igmp_join" /\ n.wq[i].x = d

\* C40: when vxlan_wq runs its works, every device that is registered and is
\* not unregistered comes to have a socket (vn_sock set), its port being free
\* or bound by a socket of this driver; as long as vn_sock is not set,
\* vxlan_open fails: the device does not come up and no igmp_join is queued.
C40_EventuallyAttached ==
    /\ \A d \in DOMAIN NsIdle.dev :
          [](ns.dev[d].reg => <>(ns.dev[d].vn_sock # 0 \/ ~ns.dev[d].reg \/ ns.oops))
    /\ [][ \A d \in DOMAIN ns.dev :
              (ns.dev[d].reg /\ ns.dev[d].vn_sock = 0) =>
                 /\ ~Opens(d)
                 /\ JoinPending(ns', d) => JoinPending(ns, d) ]_vars
====
